---- MODULE Spec2Model ----
(***************************************************************************)
(* OData Navigator (oisee/odatanavigator): the Bubble Tea model of         *)
(* src/main.go as a state machine.                                         *)
(*                                                                         *)
(* The variable m is the value of the Go struct `model`; every handler of  *)
(* model.Update is an operator from a model value to a result              *)
(* [m, cmds, panic], and every action applies one handler and then the     *)
(* View call the Bubble Tea event loop makes after each Update.            *)
(* Go indices (activeColumn, cursor, scrollOffset, modalCursor, ...) keep  *)
(* their 0-based values; TLA+ sequences are indexed from 1.                *)
(*                                                                         *)
(* Left out: column widths, the height of the preview column, the text of  *)
(* the older entries of m.logs and, outside SpecLog, their number.         *)
(*                                                                         *)
(* Specifications: Spec (navigation and completion events), SpecCursor     *)
(* (every cursor key on a shallow stack), SpecEdit (every editor key),     *)
(* SpecType (typing and committing in the editor), SpecList (listing the   *)
(* records of a collection), SpecPreview (the preview commands and their   *)
(* messages), SpecKeys (keys with the editor open and closed), SpecKey     *)
(* (key extraction), SpecRead (detailed reads and updates), SpecLog (the    *)
(* length of the log), SpecNames (collections by name), SpecSave (commits  *)
(* and their completions), SpecBind (the bound service) and SpecPrint (the *)
(* printable keys of the editor).  The preview commands are followed in    *)
(* SpecPreview and SpecBind only: previewMsg writes to the preview column  *)
(* and to previewLoading and to nothing else, and no handler reads either, *)
(* so the other specifications let a preview command go when it is issued. *)
(***************************************************************************)
EXTENDS Integers, Sequences, FiniteSets, Bags, TLC

VARIABLES
    m,        \* the model struct (main.go:28-50)
    pending,  \* bag of commands in flight (tea.Cmd goroutines not yet delivered)
    pc,       \* "running" | "quit" (tea.Quit) | "panic" (Go run-time panic)
    hist,     \* history of the last key, used only to state properties
    edits,    \* buffer-changing keys since the editor opened (bounds the model)
    lastPreview  \* the preview command issued last, used to state properties

vars == <<m, pending, pc, hist, edits, lastPreview>>

(***************************************************************************)
(* Bounds of the model.                                                    *)
(***************************************************************************)
MaxPending == 2      \* commands in flight at once
CursorBound == 3     \* |cursor| of a column and modalCursor stay within this
MaxEdits == 1        \* buffer-changing keys per editor session (SpecEdit)
MaxTyped == 6        \* buffer-changing keys per editor session (SpecType)
MaxPreviews == 2     \* preview commands in flight at once (SpecPreview)

(***************************************************************************)
(* Inputs: terminal sizes, configured services, what the services answer.  *)
(***************************************************************************)
WinWidth == 80
WinHeights == {10}
ServiceNames == <<"S1">>

Min(a, b) == IF a < b THEN a ELSE b

\* Go integer division truncates toward zero (b > 0)
GoDiv(a, b) == IF a >= 0 THEN a \div b ELSE -((-a) \div b)

\* int(float64(h) * 0.95) for h >= 0
Int95(h) == (h * 95) \div 100

Range(s) == {s[i] : i \in 1..Len(s)}

(***************************************************************************)
(* Strings.  TLC evaluates Len, SubSeq and \o on strings.                  *)
(***************************************************************************)
CharAt(s, i) == SubSeq(s, i, i)          \* 1-based
Prefix(s, n) == SubSeq(s, 1, n)          \* Go s[:n]
Suffix(s, n) == SubSeq(s, n + 1, Len(s)) \* Go s[n:]

HasPrefix(s, p) == Len(s) >= Len(p) /\ Prefix(s, Len(p)) = p

RECURSIVE IndexFrom(_, _, _)
\* smallest i >= from with sub at position i of s (1-based), 0 when absent
IndexFrom(s, sub, from) ==
    IF from + Len(sub) - 1 > Len(s) THEN 0
    ELSE IF SubSeq(s, from, from + Len(sub) - 1) = sub THEN from
    ELSE IndexFrom(s, sub, from + 1)

RECURSIVE LastIndexFrom(_, _, _)
\* strings.LastIndex: greatest i <= from with sub at position i of s, 0 when
\* absent
LastIndexFrom(s, sub, from) ==
    IF from < 1 THEN 0
    ELSE IF SubSeq(s, from, from + Len(sub) - 1) = sub THEN from
    ELSE LastIndexFrom(s, sub, from - 1)

UpperCase == "ABCDEFGHIJKLMNOPQRSTUVWXYZ"
LowerCase == "abcdefghijklmnopqrstuvwxyz"

RECURSIVE ToLower(_)
\* strings.ToLower on ASCII
ToLower(s) ==
    IF Len(s) = 0 THEN ""
    ELSE LET c == CharAt(s, 1)
             i == IndexFrom(UpperCase, c, 1)
         IN (IF i = 0 THEN c ELSE CharAt(LowerCase, i)) \o ToLower(Suffix(s, 1))

\* strings.Split(s, sep)[0]
SplitFirst(s, sep) ==
    LET i == IndexFrom(s, sep, 1) IN IF i = 0 THEN s ELSE Prefix(s, i - 1)

RECURSIVE JoinLines(_)
\* strings.Join(lines, "\n")
JoinLines(lines) ==
    IF Len(lines) = 0 THEN ""
    ELSE IF Len(lines) = 1 THEN lines[1]
    ELSE lines[1] \o "\n" \o JoinLines(Tail(lines))

(***************************************************************************)
(* Records (entities): functions from field names to typed values          *)
(* [t |-> "num" | "str" | "null", v |-> text of the value as %v prints     *)
(* it]; the value of "__metadata" is a map with the fields id and uri,     *)
(* each a string or absent (Null).                                         *)
(***************************************************************************)
Num(x) == [t |-> "num", v |-> x]
Str(x) == [t |-> "str", v |-> x]
Null == [t |-> "null", v |-> "<nil>"]
Meta(id, uri) == [t |-> "map", id |-> id, uri |-> uri]

E1 == [ID |-> Num("1"), Name |-> Str("A")]
E2 == [ID |-> Num("2")]

\* field names in the byte order encoding/json sorts map keys by
FieldOrder == <<"ID", "Name", "metadata">>

SortedKeys(e) == SelectSeq(FieldOrder, LAMBDA k : k \in DOMAIN e)

RECURSIVE JsonEscape(_)
\* encoding/json string escaping (HTML-safe: <, > and & become \u00XX)
JsonEscape(s) ==
    IF Len(s) = 0 THEN ""
    ELSE LET c == CharAt(s, 1)
             e == CASE c = "<" -> "\\u003c"
                    [] c = ">" -> "\\u003e"
                    [] c = "&" -> "\\u0026"
                    [] c = "\"" -> "\\\""
                    [] OTHER -> c
         IN e \o JsonEscape(Suffix(s, 1))

JsonValue(val) ==
    IF val.t = "num" THEN val.v ELSE "\"" \o JsonEscape(val.v) \o "\""

\* strings.Split(string(json.MarshalIndent(entity, "", "  ")), "\n")
MarshalIndent(e) ==
    LET ks == SortedKeys(e) IN
    IF Len(ks) = 0 THEN <<"{}">>
    ELSE <<"{">>
         \o [i \in 1..Len(ks) |->
                "  \"" \o ks[i] \o "\": " \o JsonValue(e[ks[i]])
                \o (IF i < Len(ks) THEN "," ELSE "")]
         \o <<"}">>

KeyFields == <<"Program", "Class", "Interface", "Package", "Function",
               "ID", "Id", "Key", "Code", "Number",
               "ProductID", "CategoryID", "CustomerID", "OrderID", "EmployeeID">>
DescFields == <<"Title", "Name", "Description", "Text">>

\* first field of the list fs that e holds with a value other than nil, ""
\* when none
FirstPresent(e, fs) ==
    LET hit == SelectSeq(fs, LAMBDA k : k \in DOMAIN e /\ e[k].t # "null")
    IN IF Len(hit) = 0 THEN "" ELSE hit[1]

\* formatEntityForDisplay.  Without a key field Go takes the first field its
\* map iteration yields; the entities used here have at most one such field.
formatEntityForDisplay(e) ==
    LET k == FirstPresent(e, KeyFields)
        desc == SelectSeq(DescFields,
                          LAMBDA f : f \in DOMAIN e /\ e[f].t # "null"
                                     /\ e[f] # Str(""))
        plain == {f \in DOMAIN e : e[f].t # "null" /\ ~HasPrefix(f, "__")}
    IN IF k # ""
       THEN e[k].v \o (IF desc # <<>> THEN " | " \o e[desc[1]].v ELSE "")
       ELSE IF plain # {}
            THEN LET f == CHOOSE f \in plain : TRUE IN f \o ": " \o e[f].v
            ELSE "Entity (0 fields)"

\* EntityCapabilities.String() of GetEntitySetCapabilities(entitySet)
Capabilities(entitySet) ==
    CASE entitySet = "Categories" -> "[SFCUD]"
      [] entitySet = "Products" -> "[SFCU]"
      [] entitySet = "Advertisements" -> "[SFCUDM]"
      [] OTHER -> "[SF]"

RECURSIVE MetaBreak(_)
\* the two strings.ReplaceAll calls of formatMetadataForDisplay
\* ("><" -> ">\n<", then "/>" -> "/>\n"), the result split at "\n"
MetaBreak(s) ==
    LET a == IndexFrom(s, "><", 1)
        b == IndexFrom(s, "/>", 1)
    IN IF a = 0 /\ b = 0 THEN <<s>>
       ELSE IF b = 0 \/ (a # 0 /\ a < b)
            THEN <<Prefix(s, a)>> \o MetaBreak(Suffix(s, a))
            ELSE IF b + 2 <= Len(s) /\ CharAt(s, b + 2) = "<"
                 \* "/><" gets a break from each replacement: an empty line
                 THEN <<Prefix(s, b + 1), "">> \o MetaBreak(Suffix(s, b + 1))
                 ELSE <<Prefix(s, b + 1)>> \o MetaBreak(Suffix(s, b + 1))

\* formatMetadataForDisplay for bodies without blanks whose lines are
\* shorter than the wrap width (20 at least): empty lines are dropped
formatMetadataForDisplay(body) ==
    SelectSeq(MetaBreak(body), LAMBDA l : l # "")

(***************************************************************************)
(* What the remote services answer.                                        *)
(***************************************************************************)
\* GetEntitySets: the entity sets of each configured service
EntitySetsOf(svc) ==
    IF svc = 1 THEN {<<"Products">>} ELSE {<<"Products", "Orders">>}

\* the limit loadEntities and updatePreview pass to GetEntitiesWithCount
Limit == 10

\* the records a collection holds: n records with the IDs 2, 3, ...
Held(n) == [i \in 1..n |-> [ID |-> Num(ToString(i + 1))]]
HeldCounts == {0, 1, Limit, Limit + 1}
Holdings == {Held(n) : n \in HeldCounts}

\* GetEntitiesWithCount that reports more records as soon as the limit is
\* reached
GetEntitiesWithCountAtLimit(held, top) ==
    LET t == IF top <= 0 THEN 10 ELSE top
        got == SubSeq(held, 1, Min(Len(held), t + 1))
    IN IF Len(got) >= t
       THEN [entities |-> SubSeq(got, 1, t), hasMore |-> TRUE]
       ELSE [entities |-> got, hasMore |-> FALSE]

\* func (o *ODataService) GetEntitiesWithCount(entitySet, top) on a
\* collection that holds the records held: GetEntities is asked for
\* top + 1 records, and the answer is cut to top
GetEntitiesWithCount(held, top) ==
    LET t == IF top <= 0 THEN 10 ELSE top
        got == SubSeq(held, 1, Min(Len(held), t + 1))
    IN IF Len(got) > t
       THEN [entities |-> SubSeq(got, 1, t), hasMore |-> TRUE]
       ELSE [entities |-> got, hasMore |-> FALSE]

\* the pages (entities, hasMore) a service may return
EntityPages == {GetEntitiesWithCount(held, Limit) : held \in Holdings}

\* bodies of the $metadata document
MetadataBodies == {"", "<a/>"}

(***************************************************************************)
(* Columns and the initial model.                                          *)
(***************************************************************************)
NewColumn(title, items, isDetails, entities) ==
    [title |-> title, items |-> items, cursor |-> 0, scrollOffset |-> 0,
     height |-> 0, focused |-> FALSE, entities |-> entities,
     isDetails |-> isDetails]

\* m.logs, newest entry first.  Of a log of one entry the model keeps the
\* newest entry only; a log that starts with more than one entry (SpecLog)
\* keeps its length, the older entries blanked.
AppendLog(logs, entry) ==
    IF Len(logs) > 1 THEN <<entry>> \o [i \in 1..Len(logs) |-> ""]
    ELSE <<entry>>

\* "Keep only last 100 log entries"
LogLimit == 100
KeepLast(logs) ==
    IF Len(logs) > LogLimit THEN SubSeq(logs, 1, LogLimit) ELSE logs

initialModel(services) ==
    [columns |-> <<[NewColumn("OData Services", services, FALSE, <<>>)
                       EXCEPT !.focused = TRUE]>>,
     activeColumn |-> 0,
     width |-> 0,
     height |-> 0,
     odata |-> 0,             \* 0: nil, else the index of the bound service
     loading |-> FALSE,
     logs |-> <<"Application started">>,
     showLogs |-> TRUE,
     services |-> services,   \* the names of the configured services
     serviceIndex |-> -1,
     editMode |-> FALSE,
     modalEditor |-> FALSE,
     modalContent |-> <<>>,
     modalCursor |-> 0,
     modalScroll |-> 0,
     modalColCursor |-> 0,
     modalOperation |-> "",
     previewColumn |-> [title |-> "Preview",
                        items |-> <<"Select a service to preview entity sets">>,
                        entities |-> <<>>],
     previewLoading |-> FALSE]

\* result of a handler: the model it returns, the commands it issues, how
\* many columns of the old stack it kept, and whether it panicked instead
Ret(mm, cmds) ==
    [m |-> mm, cmds |-> cmds, keep |-> Len(mm.columns), panic |-> FALSE]
RetKeep(mm, cmds, keep) ==
    [m |-> mm, cmds |-> cmds, keep |-> keep, panic |-> FALSE]
Panic(mm) ==
    [m |-> mm, cmds |-> <<>>, keep |-> Len(mm.columns), panic |-> TRUE]

\* a command in flight; target is the Go index of the column its drill-down
\* created, -1 once that column has left the stack (kept for the properties)
Request(kind, svc, entitySet, target) ==
    [kind |-> kind, svc |-> svc, entitySet |-> entitySet, target |-> target]

\* the command updatePreview returns: what its closure captured
PreviewRequest(previewType, svc, name, data) ==
    [kind |-> "preview", svc |-> svc, entitySet |-> name, target |-> -1,
     previewType |-> previewType, data |-> data]

\* updateColumnSizes: every column gets the height m.height - 4 (widths are
\* not modelled)
updateColumnSizes(mm) ==
    [mm EXCEPT !.columns =
        [i \in 1..Len(mm.columns) |->
            [mm.columns[i] EXCEPT !.height = mm.height - 4]]]

\* the synchronous part of updatePreview indexes items[cursor] after checking
\* cursor < len(items) only: a negative cursor panics
updatePreviewPanics(mm) ==
    /\ mm.activeColumn < Len(mm.columns)
    /\ LET col == mm.columns[mm.activeColumn + 1]
       IN col.cursor < Len(col.items) /\ col.cursor < 0

(***************************************************************************)
(* Navigation handlers (model.Update outside the modal editor).            *)
(***************************************************************************)
ActiveCol(mm) == mm.columns[mm.activeColumn + 1]

SetActiveCol(mm, col) ==
    [mm EXCEPT !.columns = [mm.columns EXCEPT ![mm.activeColumn + 1] = col]]

\* append newColumn, make it the active one, focus it, resize
PushColumn(mm, kept, newColumn) ==
    LET cols == Append(kept, newColumn)
        ac == mm.activeColumn + 1
    IN updateColumnSizes(
           [mm EXCEPT !.columns = [cols EXCEPT ![ac + 1].focused = TRUE],
                      !.activeColumn = ac])

\* the first service whatever the name
ServiceIndexOfFirst(services, name) == IF services = <<>> THEN 0 ELSE 1

\* index (1-based) of the service named name, 0 when there is none
ServiceIndexOf(services, name) ==
    LET hit == {i \in 1..Len(services) : services[i] = name}
    IN IF hit = {} THEN 0 ELSE CHOOSE i \in hit : \A j \in hit : i <= j

\* func (m model) updatePreview() tea.Cmd: the commands it returns (none
\* for nil).  Its receiver is a copy of the model, so its assignment
\* m.previewLoading = true does not reach the model Update returns.  The
\* name of a service stands for its base URL.
updatePreview(mm) ==
    IF mm.activeColumn >= Len(mm.columns) THEN <<>>
    ELSE
    LET currentCol == ActiveCol(mm) IN
    IF currentCol.cursor >= Len(currentCol.items) \/ currentCol.cursor < 0
    THEN <<>>
    ELSE
    LET selectedItem == currentCol.items[currentCol.cursor + 1]
        entitySetName == SplitFirst(selectedItem, " [")
        uriStart == IndexFrom(selectedItem, "https://", 1)
        uriEnd == IF uriStart = 0 THEN 0
                  ELSE IndexFrom(selectedItem, "\"", uriStart)
    IN
    CASE mm.activeColumn = 0 ->
           <<PreviewRequest("entitysets",
                            ServiceIndexOf(mm.services, selectedItem), "", <<>>)>>
      [] mm.activeColumn = 1 ->
           IF mm.odata = 0 THEN <<>>
           ELSE IF entitySetName = "$metadata"
           THEN <<PreviewRequest("metadata", mm.odata, "",
                     [url |-> mm.services[mm.odata] \o "/$metadata",
                      note |-> "Service Metadata - press Enter to view full metadata document",
                      type |-> "OData Service Metadata"])>>
           ELSE IF HasPrefix(entitySetName, "[FUNC] ")
           THEN <<PreviewRequest("function", mm.odata, "",
                     [name |-> Suffix(entitySetName, 7),
                      note |-> "Function Import - press Enter to view parameters and execute",
                      type |-> "Function Import",
                      description |-> "OData Function Import: "
                                          \o Suffix(entitySetName, 7),
                      parameters |-> "Parameters will be shown when metadata is loaded"])>>
           ELSE <<PreviewRequest("entities", mm.odata, entitySetName, <<>>)>>
      [] OTHER ->
           IF currentCol.isDetails
           THEN IF /\ IndexFrom(selectedItem, "__deferred", 1) # 0
                   /\ IndexFrom(selectedItem, "uri", 1) # 0
                   /\ uriStart # 0 /\ uriEnd # 0
                THEN <<PreviewRequest("navigation", mm.odata, "",
                          [uri |-> SubSeq(selectedItem, uriStart, uriEnd - 1),
                           note |-> "Navigation property - press Enter to follow"])>>
                ELSE <<PreviewRequest("none", mm.odata, "", <<>>)>>
           ELSE IF currentCol.cursor < Len(currentCol.entities)
           THEN <<PreviewRequest("json", mm.odata, "",
                                 currentCol.entities[currentCol.cursor + 1])>>
           ELSE <<>>

drillDown(mm) ==
    LET ac == mm.activeColumn IN
    IF ac >= Len(mm.columns) THEN Ret(mm, <<>>)
    ELSE
    LET currentCol == ActiveCol(mm) IN
    IF currentCol.cursor >= Len(currentCol.items) THEN Ret(mm, <<>>)
    ELSE IF currentCol.cursor < 0 THEN Panic(mm)
    ELSE
    LET selectedItem == currentCol.items[currentCol.cursor + 1]
        cleared == [i \in 1..Len(mm.columns) |->
                       [mm.columns[i] EXCEPT !.focused = FALSE]]
        kept == IF ac + 1 < Len(cleared) THEN SubSeq(cleared, 1, ac + 1)
                ELSE cleared
    IN
    CASE ac = 0 ->
           LET i == ServiceIndexOf(mm.services, selectedItem)
               m1 == IF i = 0 THEN mm
                     ELSE [mm EXCEPT !.serviceIndex = i - 1, !.odata = i,
                                     !.logs = AppendLog(@, "Connected to")]
               m2 == PushColumn(m1, kept,
                        NewColumn("EntitySets", <<"Loading...">>, FALSE, <<>>))
               m3 == [m2 EXCEPT !.loading = TRUE]
           IN RetKeep(m3,
                      <<Request("loadEntitySets", m2.odata, "", ac + 1)>>
                          \o updatePreview(m3),
                      Len(kept))
      [] ac = 1 ->
           LET entitySetName == SplitFirst(selectedItem, " [") IN
           IF entitySetName = "$metadata"
           THEN LET m2 == PushColumn(mm, kept,
                             NewColumn("Metadata", <<"Loading metadata...">>,
                                       TRUE, <<>>))
                    m3 == [m2 EXCEPT !.loading = TRUE]
                IN RetKeep(m3,
                           <<Request("metadata", mm.odata, "Metadata", ac + 1)>>,
                           Len(kept))
           ELSE LET m2 == PushColumn(mm, kept,
                             NewColumn(entitySetName, <<"Loading...">>,
                                       FALSE, <<>>))
                    m3 == [m2 EXCEPT !.loading = TRUE]
                IN RetKeep(m3,
                           <<Request("loadEntities", mm.odata, entitySetName,
                                     ac + 1)>> \o updatePreview(m3),
                           Len(kept))
      [] ac = 2 ->
           LET prevCol == kept[ac + 1]
               newColumn ==
                   IF prevCol.cursor < Len(prevCol.entities)
                   THEN LET selectedEntity == prevCol.entities[prevCol.cursor + 1]
                        IN NewColumn("Details", MarshalIndent(selectedEntity),
                                     TRUE, <<selectedEntity>>)
                   ELSE NewColumn("Details", <<"No entity data available">>,
                                  TRUE, <<>>)
           IN RetKeep(PushColumn(mm, kept, newColumn), <<>>, Len(kept))
      [] OTHER ->
           \* already at the JSON level: the model is returned with the focus
           \* flags cleared above
           RetKeep([mm EXCEPT !.columns = kept], <<>>, Len(kept))

\* goBack without the truncation of the stack
goBackKeepsStack(mm) ==
    IF mm.activeColumn > 0
    THEN updateColumnSizes(
             [mm EXCEPT !.columns = [i \in 1..Len(mm.columns) |->
                                        [mm.columns[i] EXCEPT
                                            !.focused = (i = mm.activeColumn)]],
                        !.activeColumn = mm.activeColumn - 1])
    ELSE mm

\* goBack that also rewinds the cursor of the column it returns to
goBackRewinds(mm) ==
    IF mm.activeColumn > 0
    THEN LET ac == mm.activeColumn - 1
             cols == SubSeq(mm.columns, 1, mm.activeColumn)
         IN updateColumnSizes(
                [mm EXCEPT !.columns = [i \in 1..Len(cols) |->
                                           [cols[i] EXCEPT !.focused = (i - 1 = ac),
                                                           !.cursor = IF i - 1 = ac
                                                                      THEN 0 ELSE @]],
                           !.activeColumn = ac])
    ELSE mm

goBack(mm) ==
    IF mm.activeColumn > 0
    THEN LET ac == mm.activeColumn - 1
             cols == SubSeq(mm.columns, 1, mm.activeColumn)
         IN updateColumnSizes(
                [mm EXCEPT !.columns = [i \in 1..Len(cols) |->
                                           [cols[i] EXCEPT !.focused = (i - 1 = ac)]],
                           !.activeColumn = ac])
    ELSE mm

\* case "left", "h", "esc": goBack, then updatePreview on the new model
keyLeft(mm) ==
    IF mm.editMode
    THEN Ret([mm EXCEPT !.editMode = FALSE,
                        !.logs = AppendLog(@, "Edit cancelled")], <<>>)
    ELSE LET newModel == goBack(mm)
         IN IF updatePreviewPanics(newModel) THEN Panic(mm)
            ELSE RetKeep(newModel, updatePreview(newModel),
                         Len(newModel.columns))

\* case "right", "l", "enter"
keyRight(mm) == IF ~mm.editMode THEN drillDown(mm) ELSE Ret(mm, <<>>)

\* case "up", "k"
keyUp(mm) ==
    IF mm.editMode \/ mm.activeColumn >= Len(mm.columns) THEN Ret(mm, <<>>)
    ELSE LET col == ActiveCol(mm) IN
         IF col.cursor > 0
         THEN LET c == col.cursor - 1
                  so == IF c < col.scrollOffset THEN c ELSE col.scrollOffset
                  m1 == SetActiveCol(mm, [col EXCEPT !.cursor = c,
                                                     !.scrollOffset = so])
              IN Ret(m1, IF ~col.isDetails THEN updatePreview(m1) ELSE <<>>)
         ELSE Ret(mm, <<>>)

\* case "down", "j"
keyDown(mm) ==
    IF mm.editMode \/ mm.activeColumn >= Len(mm.columns) THEN Ret(mm, <<>>)
    ELSE LET col == ActiveCol(mm) IN
         IF col.cursor < Len(col.items) - 1
         THEN LET c == col.cursor + 1
                  visibleHeight == col.height - 2
                  so == IF c >= col.scrollOffset + visibleHeight
                        THEN c - visibleHeight + 1 ELSE col.scrollOffset
                  m1 == SetActiveCol(mm, [col EXCEPT !.cursor = c,
                                                     !.scrollOffset = so])
              IN IF ~col.isDetails /\ updatePreviewPanics(m1) THEN Panic(mm)
                 ELSE Ret(m1, IF ~col.isDetails THEN updatePreview(m1)
                              ELSE <<>>)
         ELSE Ret(mm, <<>>)

\* case "pgup"
keyPgUp(mm) ==
    IF mm.activeColumn >= Len(mm.columns) THEN Ret(mm, <<>>)
    ELSE LET col == ActiveCol(mm)
             pageSize == col.height - 2
             c == col.cursor - pageSize
             newCursor == IF c < 0 THEN 0 ELSE c
         IN Ret(SetActiveCol(mm, [col EXCEPT !.cursor = newCursor,
                                            !.scrollOffset = newCursor]), <<>>)

\* case "pgdown"
keyPgDown(mm) ==
    IF mm.activeColumn >= Len(mm.columns) THEN Ret(mm, <<>>)
    ELSE LET col == ActiveCol(mm)
             pageSize == col.height - 2
             c == col.cursor + pageSize
             newCursor == IF c >= Len(col.items) THEN Len(col.items) - 1 ELSE c
             visibleHeight == col.height - 2
             so == IF newCursor >= col.scrollOffset + visibleHeight
                   THEN newCursor - visibleHeight + 1 ELSE col.scrollOffset
         IN Ret(SetActiveCol(mm, [col EXCEPT !.cursor = newCursor,
                                            !.scrollOffset = so]), <<>>)

\* case "home"
keyHome(mm) ==
    IF mm.activeColumn >= Len(mm.columns) THEN Ret(mm, <<>>)
    ELSE Ret(SetActiveCol(mm, [ActiveCol(mm) EXCEPT !.cursor = 0,
                                                   !.scrollOffset = 0]), <<>>)

\* case "end"
keyEnd(mm) ==
    IF mm.activeColumn >= Len(mm.columns) THEN Ret(mm, <<>>)
    ELSE LET col == ActiveCol(mm)
             visibleHeight == col.height - 2
         IN IF Len(col.items) > 0
            THEN Ret(SetActiveCol(mm,
                        [col EXCEPT !.cursor = Len(col.items) - 1,
                                    !.scrollOffset =
                                        IF Len(col.items) > visibleHeight
                                        THEN Len(col.items) - visibleHeight
                                        ELSE 0]), <<>>)
            ELSE Ret(mm, <<>>)

\* case "f9"
keyF9(mm) == Ret([mm EXCEPT !.showLogs = ~@], <<>>)

\* case tea.WindowSizeMsg
windowSizeMsg(mm, w, h) ==
    Ret(updateColumnSizes([mm EXCEPT !.width = w, !.height = h]), <<>>)

(***************************************************************************)
(* Completion events.                                                      *)
(***************************************************************************)
\* index (1-based) of the first column whose title is in titles, 0 when
\* there is none
FirstColumn(cols, titles) ==
    LET hit == {i \in 1..Len(cols) : cols[i].title \in titles}
    IN IF hit = {} THEN 0 ELSE CHOOSE i \in hit : \A j \in hit : i <= j

\* case entitySetsMsg
entitySetsMsg(mm, msg) ==
    LET m1 == [mm EXCEPT !.loading = FALSE,
                         !.logs = AppendLog(@, "Loaded entity sets")]
        i == FirstColumn(mm.columns, {"EntitySets"})
        shown == <<"$metadata [META]">>
                 \o [k \in 1..Len(msg) |-> msg[k] \o " " \o Capabilities(msg[k])]
        items == IF Len(shown) = 1 THEN Append(shown, "(No entity sets)")
                 ELSE shown
    IN IF i = 0 THEN Ret(m1, <<>>)
       ELSE Ret([m1 EXCEPT !.columns[i].items = items], <<>>)

\* case entitiesMsg
entitiesMsg(mm, msg) ==
    LET m1 == [mm EXCEPT !.loading = FALSE,
                         !.logs = AppendLog(@, "Loaded entities")]
        i == FirstColumn(mm.columns, {msg.entitySet, "Metadata"})
        listed == [k \in 1..Len(msg.entities) |->
                      formatEntityForDisplay(msg.entities[k])]
        more == IF msg.hasMore THEN Append(listed, "[...more items]") ELSE listed
        items ==
            IF msg.entitySet = "Metadata" /\ Len(msg.entities) > 0
            THEN IF "metadata" \in DOMAIN msg.entities[1]
                    /\ msg.entities[1]["metadata"].t = "str"
                 THEN formatMetadataForDisplay(msg.entities[1]["metadata"].v)
                 ELSE <<"Error: Could not parse metadata">>
            ELSE IF Len(more) = 0 THEN <<"(No items)">> ELSE more
    IN IF i = 0 THEN Ret(m1, <<>>)
       ELSE Ret([m1 EXCEPT !.columns[i].entities = msg.entities,
                           !.columns[i].items = items], <<>>)

\* errorMsg that also replaces the items of the last column by an error line
errorMsgMarksColumn(mm, context) ==
    Ret([mm EXCEPT !.loading = FALSE,
                   !.logs = KeepLast(AppendLog(@, "ERROR [" \o context \o "]")),
                   !.columns[Len(mm.columns)].items = <<"Error">>], <<>>)

\* case errorMsg (the log keeps its last 100 entries)
errorMsg(mm, context) ==
    Ret([mm EXCEPT !.loading = FALSE,
                   !.logs = KeepLast(AppendLog(@, "ERROR [" \o context \o "]"))],
        <<>>)

\* a previewMsg
PreviewMsg(previewType, data, err) ==
    [previewType |-> previewType, data |-> data, errorMsg |-> err]

\* the messages the command r of updatePreview may deliver: the entity
\* sets of the service, a page of at most ten entities, or an error; the
\* other commands deliver what they captured
PreviewAnswers(r) ==
    CASE r.previewType = "entitysets" ->
           IF r.svc = 0 THEN {PreviewMsg("", <<>>, "Service not found")}
           ELSE {PreviewMsg("entitysets", names, "") :
                    names \in EntitySetsOf(r.svc)}
                \cup {PreviewMsg("", <<>>, "failed to fetch entity sets")}
      [] r.previewType = "entities" ->
           {PreviewMsg("entities", page.entities, "") : page \in EntityPages}
               \cup {PreviewMsg("", <<>>, "failed to fetch entities")}
      [] OTHER -> {PreviewMsg(r.previewType, r.data, "")}

\* case previewMsg (the bullet of the last five metadata lines is written -)
previewMsg(mm, msg) ==
    LET old == mm.previewColumn
        new ==
            IF msg.errorMsg # ""
            THEN [old EXCEPT !.items = <<"Error: " \o msg.errorMsg>>]
            ELSE
            CASE msg.previewType = "entitysets" ->
                   [old EXCEPT !.title = "EntitySets Preview",
                               !.items = [k \in 1..Len(msg.data) |->
                                   msg.data[k] \o " " \o Capabilities(msg.data[k])]]
              [] msg.previewType = "entities" ->
                   [old EXCEPT !.title = "Entities Preview",
                               !.items = [k \in 1..Len(msg.data) |->
                                   formatEntityForDisplay(msg.data[k])],
                               !.entities = msg.data]
              [] msg.previewType = "json" ->
                   [old EXCEPT !.title = "JSON Preview",
                               !.items = MarshalIndent(msg.data)]
              [] msg.previewType = "function" ->
                   [old EXCEPT !.title = "Function Preview",
                               !.items = <<"Name: " \o msg.data.name,
                                           "Type: " \o msg.data.type, "",
                                           "Description: " \o msg.data.description,
                                           "",
                                           "Parameters: " \o msg.data.parameters,
                                           "", msg.data.note>>]
              [] msg.previewType = "metadata" ->
                   [old EXCEPT !.title = "Metadata Preview",
                               !.items = <<"Type: " \o msg.data.type, "",
                                           "URL: " \o msg.data.url, "",
                                           msg.data.note, "",
                                           "Contains:",
                                           "- Entity Types and Sets",
                                           "- Function Imports",
                                           "- Complex Types",
                                           "- Associations",
                                           "- Service Operations">>]
              [] msg.previewType = "navigation" ->
                   [old EXCEPT !.title = "Navigation",
                               !.items = <<"URI: " \o msg.data.uri, "",
                                           msg.data.note>>]
              [] msg.previewType = "none" ->
                   [old EXCEPT !.title = "Preview",
                               !.items = <<"No preview available at this level">>]
              [] OTHER -> old
    IN Ret([mm EXCEPT !.previewLoading = FALSE, !.previewColumn = new], <<>>)

(***************************************************************************)
(* json.Unmarshal into a map[string]interface{}: the text must be one JSON *)
(* value between optional white space, and that value an object or null.   *)
(* The scanners return the position after what they accept, 0 on a syntax  *)
(* error.                                                                  *)
(***************************************************************************)
Digits == {"0", "1", "2", "3", "4", "5", "6", "7", "8", "9"}
HexDigits == Digits \cup {"a", "b", "c", "d", "e", "f",
                          "A", "B", "C", "D", "E", "F"}
JsonSpace == {" ", "\t", "\r", "\n"}

RECURSIVE SkipSpace(_, _)
SkipSpace(s, i) ==
    IF i <= Len(s) /\ CharAt(s, i) \in JsonSpace THEN SkipSpace(s, i + 1) ELSE i

RECURSIVE SkipDigits(_, _)
SkipDigits(s, i) ==
    IF i <= Len(s) /\ CharAt(s, i) \in Digits THEN SkipDigits(s, i + 1) ELSE i

\* the rest of a string literal, i being the position after the opening quote
RECURSIVE ScanString(_, _)
ScanString(s, i) ==
    IF i > Len(s) THEN 0
    ELSE LET c == CharAt(s, i)
         IN IF c = "\"" THEN i + 1
            ELSE IF c \in {"\t", "\r", "\n"} THEN 0
            ELSE IF c # "\\" THEN ScanString(s, i + 1)
            ELSE IF i + 1 > Len(s) THEN 0
            ELSE IF CharAt(s, i + 1) \in {"\"", "\\", "/", "b", "f", "n", "r", "t"}
                 THEN ScanString(s, i + 2)
            ELSE IF /\ CharAt(s, i + 1) = "u"
                    /\ i + 5 <= Len(s)
                    /\ \A k \in 2..5 : CharAt(s, i + k) \in HexDigits
                 THEN ScanString(s, i + 6)
            ELSE 0

ScanNumber(s, i) ==
    LET a == IF i <= Len(s) /\ CharAt(s, i) = "-" THEN i + 1 ELSE i
        b == IF a > Len(s) THEN 0
             ELSE IF CharAt(s, a) = "0" THEN a + 1
             ELSE IF CharAt(s, a) \in Digits THEN SkipDigits(s, a)
             ELSE 0
        c == IF b = 0 THEN 0
             ELSE IF b <= Len(s) /\ CharAt(s, b) = "."
                  THEN IF SkipDigits(s, b + 1) = b + 1 THEN 0
                       ELSE SkipDigits(s, b + 1)
             ELSE b
        d == IF c # 0 /\ c <= Len(s) /\ CharAt(s, c) \in {"e", "E"}
             THEN LET g == IF c + 1 <= Len(s) /\ CharAt(s, c + 1) \in {"+", "-"}
                           THEN c + 2 ELSE c + 1
                  IN IF SkipDigits(s, g) = g THEN 0 ELSE SkipDigits(s, g)
             ELSE c
    IN d

ScanLiteral(s, i, word) ==
    IF SubSeq(s, i, Min(Len(s), i + Len(word) - 1)) = word
    THEN i + Len(word) ELSE 0

RECURSIVE ScanValue(_, _), ScanMembers(_, _), ScanElements(_, _)
ScanValue(s, i) ==
    IF i > Len(s) THEN 0
    ELSE LET c == CharAt(s, i)
             j == SkipSpace(s, i + 1)
         IN IF c = "{"
            THEN IF j <= Len(s) /\ CharAt(s, j) = "}" THEN j + 1
                 ELSE ScanMembers(s, j)
            ELSE IF c = "["
            THEN IF j <= Len(s) /\ CharAt(s, j) = "]" THEN j + 1
                 ELSE ScanElements(s, j)
            ELSE IF c = "\"" THEN ScanString(s, i + 1)
            ELSE IF c = "t" THEN ScanLiteral(s, i, "true")
            ELSE IF c = "f" THEN ScanLiteral(s, i, "false")
            ELSE IF c = "n" THEN ScanLiteral(s, i, "null")
            ELSE ScanNumber(s, i)

\* "key": value pairs up to the closing brace, i at the first key
ScanMembers(s, i) ==
    IF i > Len(s) \/ CharAt(s, i) # "\"" THEN 0
    ELSE LET k == ScanString(s, i + 1)
             c == IF k = 0 THEN 0 ELSE SkipSpace(s, k)
             v == IF c = 0 \/ c > Len(s) \/ CharAt(s, c) # ":" THEN 0
                  ELSE ScanValue(s, SkipSpace(s, c + 1))
             e == IF v = 0 THEN 0 ELSE SkipSpace(s, v)
         IN IF e = 0 \/ e > Len(s) THEN 0
            ELSE IF CharAt(s, e) = "}" THEN e + 1
            ELSE IF CharAt(s, e) = "," THEN ScanMembers(s, SkipSpace(s, e + 1))
            ELSE 0

\* values up to the closing bracket, i at the first value
ScanElements(s, i) ==
    LET v == ScanValue(s, i)
        e == IF v = 0 THEN 0 ELSE SkipSpace(s, v)
    IN IF e = 0 \/ e > Len(s) THEN 0
       ELSE IF CharAt(s, e) = "]" THEN e + 1
       ELSE IF CharAt(s, e) = "," THEN ScanElements(s, SkipSpace(s, e + 1))
       ELSE 0

\* err == nil of json.Unmarshal([]byte(text), &updatedEntity)
Unmarshals(text) ==
    LET i == SkipSpace(text, 1)
        e == ScanValue(text, i)
    IN /\ e # 0
       /\ SkipSpace(text, e) = Len(text) + 1
       /\ CharAt(text, i) \in {"{", "n"}

(***************************************************************************)
(* The modal editor.  modalCursor and modalColCursor are Go indices; the   *)
(* line under the cursor is modalContent[modalCursor + 1] here.  An index  *)
(* or slice expression out of range panics.                                *)
(***************************************************************************)
ModalHeight(mm) == Int95(mm.height) - 4

SetLine(content, c, line) == [content EXCEPT ![c + 1] = line]
InsertLine(content, c, line) ==
    SubSeq(content, 1, c) \o <<line>> \o SubSeq(content, c + 1, Len(content))
RemoveLine(content, c) ==
    SubSeq(content, 1, c) \o SubSeq(content, c + 2, Len(content))

\* "Adjust column cursor if new line is shorter"; c >= 0
ClampCol(mm, c) ==
    IF c < Len(mm.modalContent) /\ mm.modalColCursor > Len(mm.modalContent[c + 1])
    THEN Len(mm.modalContent[c + 1]) ELSE mm.modalColCursor

\* func (m model) openModalEditor(operation string) model
openModalEditor(mm, operation) ==
    LET m1 == [mm EXCEPT !.modalEditor = TRUE, !.modalOperation = operation,
                         !.modalCursor = 0, !.modalColCursor = 0,
                         !.modalScroll = 0]
    IN IF operation = "create"
       THEN [m1 EXCEPT !.modalContent = <<"{", "  ", "}">>,
                       !.modalCursor = 1, !.modalColCursor = 2,
                       !.logs = AppendLog(@, "Create mode")]
       ELSE IF mm.activeColumn >= 0 /\ mm.activeColumn < Len(mm.columns)
       THEN LET currentCol == ActiveCol(mm)
            IN IF currentCol.isDetails /\ Len(currentCol.entities) > 0
               THEN [m1 EXCEPT !.modalContent = currentCol.items,
                               !.logs = AppendLog(@,
                                   IF operation = "update" THEN "Update mode"
                                   ELSE "Copy mode")]
               ELSE [m1 EXCEPT !.modalEditor = FALSE,
                               !.logs = AppendLog(@,
                                   "Update/Copy only available for entity details")]
       ELSE [m1 EXCEPT !.modalEditor = FALSE,
                       !.logs = AppendLog(@, "No entity selected for update/copy")]

\* case "f2", "f4", "f5" outside the editor
keyF2(mm) == Ret(openModalEditor(mm, "create"), <<>>)
keyF4(mm) == Ret(openModalEditor(mm, "update"), <<>>)
keyF5(mm) == Ret(openModalEditor(mm, "copy"), <<>>)

\* esc that closes the editor and keeps the buffer for the next session
editEscKeepsBuffer(mm) ==
    Ret([mm EXCEPT !.modalEditor = FALSE, !.modalCursor = 0, !.modalScroll = 0,
                   !.modalColCursor = 0, !.modalOperation = "",
                   !.logs = AppendLog(@, "Modal editor cancelled")], <<>>)

\* esc that closes the editor and also navigates back
editEscGoesBack(mm) ==
    Ret(goBack([mm EXCEPT !.modalEditor = FALSE, !.modalContent = <<>>,
                          !.modalCursor = 0, !.modalScroll = 0,
                          !.modalColCursor = 0, !.modalOperation = "",
                          !.logs = AppendLog(@, "Modal editor cancelled")]),
        <<>>)

\* case "esc" in the editor
editEsc(mm) ==
    Ret([mm EXCEPT !.modalEditor = FALSE, !.modalContent = <<>>,
                   !.modalCursor = 0, !.modalScroll = 0, !.modalColCursor = 0,
                   !.modalOperation = "",
                   !.logs = AppendLog(@, "Modal editor cancelled")], <<>>)

\* case "up", "k"
editUp(mm) ==
    IF mm.modalCursor > 0
    THEN LET c == mm.modalCursor - 1
         IN Ret([mm EXCEPT !.modalCursor = c,
                           !.modalScroll = IF c < @ THEN c ELSE @,
                           !.modalColCursor = ClampCol(mm, c)], <<>>)
    ELSE Ret(mm, <<>>)

\* case "down", "j"
editDown(mm) ==
    IF mm.modalCursor < Len(mm.modalContent) - 1
    THEN LET c == mm.modalCursor + 1
             modalHeight == ModalHeight(mm)
         IN IF c < 0 THEN Panic(mm)
            ELSE Ret([mm EXCEPT !.modalCursor = c,
                                !.modalScroll = IF c >= @ + modalHeight
                                                THEN c - modalHeight + 1 ELSE @,
                                !.modalColCursor = ClampCol(mm, c)], <<>>)
    ELSE Ret(mm, <<>>)

\* case "left"
editLeft(mm) ==
    IF mm.modalColCursor > 0
    THEN Ret([mm EXCEPT !.modalColCursor = @ - 1], <<>>)
    ELSE IF mm.modalCursor > 0
    THEN LET c == mm.modalCursor - 1
         IN Ret([mm EXCEPT !.modalCursor = c,
                           !.modalColCursor = IF c < Len(mm.modalContent)
                                              THEN Len(mm.modalContent[c + 1])
                                              ELSE @], <<>>)
    ELSE Ret(mm, <<>>)

\* case "right"
editRight(mm) ==
    IF mm.modalCursor < Len(mm.modalContent) /\ mm.modalCursor < 0 THEN Panic(mm)
    ELSE IF /\ mm.modalCursor < Len(mm.modalContent)
            /\ mm.modalColCursor < Len(mm.modalContent[mm.modalCursor + 1])
    THEN Ret([mm EXCEPT !.modalColCursor = @ + 1], <<>>)
    ELSE IF mm.modalCursor < Len(mm.modalContent) - 1
    THEN Ret([mm EXCEPT !.modalCursor = @ + 1, !.modalColCursor = 0], <<>>)
    ELSE Ret(mm, <<>>)

\* case "enter"
editEnter(mm) ==
    IF mm.modalCursor < Len(mm.modalContent)
    THEN IF mm.modalCursor < 0 THEN Panic(mm)
         ELSE LET currentLine == mm.modalContent[mm.modalCursor + 1]
              IN IF mm.modalColCursor > Len(currentLine) THEN Panic(mm)
                 ELSE LET beforeCursor == Prefix(currentLine, mm.modalColCursor)
                          afterCursor == Suffix(currentLine, mm.modalColCursor)
                          newContent ==
                              InsertLine(SetLine(mm.modalContent, mm.modalCursor,
                                                 beforeCursor),
                                         mm.modalCursor + 1, afterCursor)
                      IN Ret([mm EXCEPT !.modalContent = newContent,
                                        !.modalCursor = @ + 1,
                                        !.modalColCursor = 0], <<>>)
    ELSE Ret(mm, <<>>)

\* backspace whose join leaves the cursor at the start of the joined line
editBackspaceJoinsAtStart(mm) ==
    IF mm.modalColCursor > 0
    THEN IF mm.modalCursor < Len(mm.modalContent)
         THEN IF mm.modalCursor < 0 THEN Panic(mm)
              ELSE LET line == mm.modalContent[mm.modalCursor + 1]
                   IN IF mm.modalColCursor > Len(line) THEN Panic(mm)
                      ELSE Ret([mm EXCEPT
                                  !.modalContent =
                                      SetLine(@, mm.modalCursor,
                                          Prefix(line, mm.modalColCursor - 1)
                                          \o Suffix(line, mm.modalColCursor)),
                                  !.modalColCursor = @ - 1], <<>>)
         ELSE Ret(mm, <<>>)
    ELSE IF mm.modalCursor > 0 /\ mm.modalCursor < Len(mm.modalContent)
    THEN LET prevLine == mm.modalContent[mm.modalCursor]
             currentLine == mm.modalContent[mm.modalCursor + 1]
         IN Ret([mm EXCEPT
                    !.modalColCursor = 0,
                    !.modalContent =
                        RemoveLine(SetLine(@, mm.modalCursor - 1,
                                           prevLine \o currentLine),
                                   mm.modalCursor),
                    !.modalCursor = @ - 1], <<>>)
    ELSE Ret(mm, <<>>)

\* case "backspace"
editBackspace(mm) ==
    IF mm.modalColCursor > 0
    THEN IF mm.modalCursor < Len(mm.modalContent)
         THEN IF mm.modalCursor < 0 THEN Panic(mm)
              ELSE LET line == mm.modalContent[mm.modalCursor + 1]
                   IN IF mm.modalColCursor > Len(line) THEN Panic(mm)
                      ELSE Ret([mm EXCEPT
                                  !.modalContent =
                                      SetLine(@, mm.modalCursor,
                                          Prefix(line, mm.modalColCursor - 1)
                                          \o Suffix(line, mm.modalColCursor)),
                                  !.modalColCursor = @ - 1], <<>>)
         ELSE Ret(mm, <<>>)
    ELSE IF mm.modalCursor > 0 /\ mm.modalCursor < Len(mm.modalContent)
    THEN LET prevLine == mm.modalContent[mm.modalCursor]
             currentLine == mm.modalContent[mm.modalCursor + 1]
         IN Ret([mm EXCEPT
                    !.modalColCursor = Len(prevLine),
                    !.modalContent =
                        RemoveLine(SetLine(@, mm.modalCursor - 1,
                                           prevLine \o currentLine),
                                   mm.modalCursor),
                    !.modalCursor = @ - 1], <<>>)
    ELSE Ret(mm, <<>>)

\* delete whose join leaves the next line in place
editDeleteKeepsNextLine(mm) ==
    IF mm.modalCursor < Len(mm.modalContent)
    THEN IF mm.modalCursor < 0 THEN Panic(mm)
         ELSE LET line == mm.modalContent[mm.modalCursor + 1]
              IN IF mm.modalColCursor < Len(line)
                 THEN Ret([mm EXCEPT !.modalContent =
                              SetLine(@, mm.modalCursor,
                                  Prefix(line, mm.modalColCursor)
                                  \o Suffix(line, mm.modalColCursor + 1))], <<>>)
                 ELSE IF mm.modalCursor < Len(mm.modalContent) - 1
                 THEN LET nextLine == mm.modalContent[mm.modalCursor + 2]
                      IN Ret([mm EXCEPT !.modalContent =
                                 SetLine(@, mm.modalCursor, line \o nextLine)],
                             <<>>)
                 ELSE Ret(mm, <<>>)
    ELSE Ret(mm, <<>>)

\* case "delete"
editDelete(mm) ==
    IF mm.modalCursor < Len(mm.modalContent)
    THEN IF mm.modalCursor < 0 THEN Panic(mm)
         ELSE LET line == mm.modalContent[mm.modalCursor + 1]
              IN IF mm.modalColCursor < Len(line)
                 THEN Ret([mm EXCEPT !.modalContent =
                              SetLine(@, mm.modalCursor,
                                  Prefix(line, mm.modalColCursor)
                                  \o Suffix(line, mm.modalColCursor + 1))], <<>>)
                 ELSE IF mm.modalCursor < Len(mm.modalContent) - 1
                 THEN LET nextLine == mm.modalContent[mm.modalCursor + 2]
                      IN Ret([mm EXCEPT !.modalContent =
                                 RemoveLine(SetLine(@, mm.modalCursor,
                                                    line \o nextLine),
                                            mm.modalCursor + 1)], <<>>)
                 ELSE Ret(mm, <<>>)
    ELSE Ret(mm, <<>>)

\* case "pgup"
editPgUp(mm) ==
    LET n == mm.modalCursor - ModalHeight(mm)
        newCursor == IF n < 0 THEN 0 ELSE n
    IN Ret([mm EXCEPT !.modalCursor = newCursor, !.modalScroll = newCursor], <<>>)

\* case "pgdown"
editPgDown(mm) ==
    LET modalHeight == ModalHeight(mm)
        n == mm.modalCursor + modalHeight
        newCursor == IF n >= Len(mm.modalContent)
                     THEN Len(mm.modalContent) - 1 ELSE n
    IN Ret([mm EXCEPT !.modalCursor = newCursor,
                      !.modalScroll = IF newCursor >= @ + modalHeight
                                      THEN newCursor - modalHeight + 1 ELSE @],
           <<>>)

\* case "home"
editHome(mm) == Ret([mm EXCEPT !.modalColCursor = 0], <<>>)

\* case "end"
editEnd(mm) ==
    IF mm.modalCursor < Len(mm.modalContent)
    THEN IF mm.modalCursor < 0 THEN Panic(mm)
         ELSE Ret([mm EXCEPT !.modalColCursor =
                                 Len(mm.modalContent[mm.modalCursor + 1])], <<>>)
    ELSE Ret(mm, <<>>)

\* case "ctrl+home"
editCtrlHome(mm) ==
    Ret([mm EXCEPT !.modalCursor = 0, !.modalColCursor = 0, !.modalScroll = 0],
        <<>>)

\* case "ctrl+end"
editCtrlEnd(mm) ==
    IF Len(mm.modalContent) > 0
    THEN LET last == Len(mm.modalContent) - 1
             modalHeight == ModalHeight(mm)
         IN Ret([mm EXCEPT !.modalCursor = last,
                           !.modalColCursor = Len(mm.modalContent[last + 1]),
                           !.modalScroll = IF Len(mm.modalContent) > modalHeight
                                           THEN Len(mm.modalContent) - modalHeight
                                           ELSE 0], <<>>)
    ELSE Ret(mm, <<>>)

\* a character key that appends to the line instead of inserting at the cursor
editCharAppends(mm, char) ==
    LET content == IF mm.modalCursor >= Len(mm.modalContent)
                   THEN Append(mm.modalContent, "") ELSE mm.modalContent
    IN IF mm.modalCursor < 0 \/ mm.modalCursor >= Len(content) THEN Panic(mm)
       ELSE LET line == content[mm.modalCursor + 1]
            IN IF mm.modalColCursor > Len(line) THEN Panic(mm)
               ELSE Ret([mm EXCEPT
                           !.modalContent =
                               SetLine(content, mm.modalCursor, line \o char),
                           !.modalColCursor = @ + 1], <<>>)

\* default: a key whose name is one character is inserted at the cursor
editChar(mm, char) ==
    LET content == IF mm.modalCursor >= Len(mm.modalContent)
                   THEN Append(mm.modalContent, "") ELSE mm.modalContent
    IN IF mm.modalCursor < 0 \/ mm.modalCursor >= Len(content) THEN Panic(mm)
       ELSE LET line == content[mm.modalCursor + 1]
            IN IF mm.modalColCursor > Len(line) THEN Panic(mm)
               ELSE Ret([mm EXCEPT
                           !.modalContent =
                               SetLine(content, mm.modalCursor,
                                   Prefix(line, mm.modalColCursor) \o char
                                   \o Suffix(line, mm.modalColCursor)),
                           !.modalColCursor = @ + 1], <<>>)

\* the text between the last "(" of a URI and the first ")" after it, as a
\* one-element sequence; <<>> when the URI has no such pair
KeyInUri(uri) ==
    LET lastParen == LastIndexFrom(uri, "(", Len(uri))
        endParen == IF lastParen = 0 THEN 0 ELSE IndexFrom(uri, ")", lastParen)
    IN IF endParen = 0 THEN <<>>
       ELSE <<SubSeq(uri, lastParen + 1, endParen - 1)>>

\* extractEntityKey: the key in __metadata.id, else in __metadata.uri, else
\* the first key field with a value, quoted when it is a string.  Without
\* one Go takes a field its map iteration yields that has a value, is not
\* "__"-prefixed and has no "date" in its name; the entities used here
\* have at most one such field.
extractEntityKey(e) ==
    LET metadata == IF "__metadata" \in DOMAIN e /\ e["__metadata"].t = "map"
                    THEN e["__metadata"] ELSE Meta(Null, Null)
        id == IF metadata.id.t = "str" THEN KeyInUri(metadata.id.v) ELSE <<>>
        uri == IF metadata.uri.t = "str" THEN KeyInUri(metadata.uri.v) ELSE <<>>
        k == FirstPresent(e, KeyFields)
        Quoted(val) == IF val.t = "str" THEN "'" \o val.v \o "'" ELSE val.v
        plain == {f \in DOMAIN e : /\ e[f].t # "null"
                                   /\ ~HasPrefix(f, "__")
                                   /\ IndexFrom(ToLower(f), "date", 1) = 0}
    IN IF id # <<>> THEN id[1]
       ELSE IF uri # <<>> THEN uri[1]
       ELSE IF k # "" THEN Quoted(e[k])
       ELSE IF plain # {}
            THEN LET f == CHOOSE f \in plain : TRUE
                 IN IF e[f].t = "str" /\ e[f].v # "" THEN Quoted(e[f])
                    ELSE e[f].v
            ELSE ""

\* the command of readEntityDetails: GetEntity(entitySetName, entityKey)
ReadRequest(svc, entitySetName, entityKey) ==
    [kind |-> "readEntity", svc |-> svc, entitySet |-> entitySetName,
     target |-> -1, entityKey |-> entityKey]

\* func (m model) readEntityDetails() (tea.Model, tea.Cmd): case "f3"
readEntityDetails(mm) ==
    IF mm.activeColumn < 0 \/ mm.activeColumn >= Len(mm.columns)
    THEN Ret(mm, <<>>)
    ELSE LET currentCol == ActiveCol(mm) IN
         IF \/ currentCol.isDetails
            \/ Len(currentCol.entities) = 0
            \/ currentCol.cursor >= Len(currentCol.entities)
         THEN Ret([mm EXCEPT !.logs = AppendLog(@,
                      "F3: Select an entity in the entity list to read details")],
                  <<>>)
         ELSE IF currentCol.cursor < 0 THEN Panic(mm)
         ELSE LET selectedEntity == currentCol.entities[currentCol.cursor + 1]
                  entityKey == extractEntityKey(selectedEntity)
              IN IF entityKey = ""
                 THEN Ret([mm EXCEPT !.logs = AppendLog(@,
                              "F3: Could not determine entity key for detailed read")],
                          <<>>)
                 ELSE Ret([mm EXCEPT !.loading = TRUE,
                                     !.logs = AppendLog(@, "Reading detailed entity")],
                          <<ReadRequest(mm.odata, currentCol.title, entityKey)>>)

\* case entityDetailMsg: the first column titled "Details" that is a detail
\* column takes the record read
entityDetailMsg(mm, entity) ==
    LET m1 == [mm EXCEPT !.loading = FALSE,
                         !.logs = AppendLog(@, "Read detailed entity")]
        hit == {i \in 1..Len(mm.columns) :
                   mm.columns[i].title = "Details" /\ mm.columns[i].isDetails}
    IN IF hit = {} THEN Ret(m1, <<>>)
       ELSE LET i == CHOOSE i \in hit : \A j \in hit : i <= j
            IN Ret([m1 EXCEPT !.columns[i].entities = <<entity>>,
                              !.columns[i].items = MarshalIndent(entity),
                              !.columns[i].cursor = 0,
                              !.columns[i].scrollOffset = 0], <<>>)

\* the command of saveModalChanges: CreateEntity(entitySetName, ...) or
\* UpdateEntity(entitySetName, entityKey, ...)
SaveRequest(operation, svc, entitySetName, entityKey) ==
    [kind |-> operation, svc |-> svc, entitySet |-> entitySetName,
     target |-> -1, entityKey |-> entityKey]

\* saveModalChanges with the parse of the buffer replaced by accepts
saveModalChangesWith(mm, accepts) ==
    LET Refuse(text) == Ret([mm EXCEPT !.logs = AppendLog(@, text)], <<>>)
        Perform(entitySetName, entityKey) ==
            IF entitySetName = "" THEN Refuse("Cannot determine entity set name")
            ELSE Ret([mm EXCEPT !.loading = TRUE,
                                !.logs = AppendLog(@, "Performing operation")],
                     <<SaveRequest(mm.modalOperation, mm.odata, entitySetName,
                                   entityKey)>>)
    IN
    IF ~mm.modalEditor THEN Ret(mm, <<>>)
    ELSE IF ~accepts THEN Refuse("Invalid JSON")
    ELSE IF mm.modalOperation = "create"
    THEN LET i == FirstColumn(mm.columns,
                      {mm.columns[k].title : k \in 1..Len(mm.columns)}
                          \ {"OData Services", "EntitySets", "Details",
                             "Metadata"})
         IN IF i = 0 \/ mm.columns[i].title = ""
            THEN Refuse("Cannot determine entity set for create operation")
            ELSE Perform(mm.columns[i].title, "")
    ELSE IF mm.activeColumn >= Len(mm.columns)
    THEN Refuse("No active column for update operation")
    ELSE LET currentCol == ActiveCol(mm)
             entitySetName == IF mm.activeColumn > 0
                              THEN mm.columns[mm.activeColumn].title ELSE ""
         IN IF ~currentCol.isDetails \/ Len(currentCol.entities) = 0
            THEN Refuse("No entity data for update operation")
            ELSE IF /\ mm.modalOperation = "update"
                    /\ extractEntityKey(currentCol.entities[1]) = ""
            THEN Refuse("Cannot determine entity key for update operation")
            ELSE Perform(entitySetName,
                         IF mm.modalOperation = "update"
                         THEN extractEntityKey(currentCol.entities[1]) ELSE "")

\* saveModalChanges that closes the editor whatever the buffer holds
saveModalChangesClosing(mm) ==
    IF Unmarshals(JoinLines(mm.modalContent))
    THEN saveModalChangesWith(mm, TRUE)
    ELSE editEsc(mm)

\* func (m model) saveModalChanges() (tea.Model, tea.Cmd): case "f2" in the
\* editor
saveModalChanges(mm) ==
    saveModalChangesWith(mm, Unmarshals(JoinLines(mm.modalContent)))

\* case saveSuccessMsg
saveSuccessMsg(mm, operation) ==
    Ret([mm EXCEPT !.loading = FALSE, !.modalEditor = FALSE,
                   !.modalContent = <<>>, !.modalCursor = 0, !.modalScroll = 0,
                   !.modalColCursor = 0, !.modalOperation = "",
                   !.logs = AppendLog(@, "SUCCESS: " \o operation)], <<>>)

(***************************************************************************)
(* View, which the event loop calls after every Update.  It writes the     *)
(* body height into the columns (the slice shares its array with the       *)
(* model) and renders the modal overlay, whose slice expression            *)
(* modalContent[modalScroll:endIdx] panics when out of range.              *)
(***************************************************************************)
bodyHeightOf(mm) ==
    LET b == mm.height - 5
    IN IF mm.showLogs THEN b - Min(10, GoDiv(b, 3)) - 1 ELSE b

renderModalOverlayPanics(mm) ==
    LET contentHeight == Int95(mm.height) - 4
        e == mm.modalScroll + contentHeight
        endIdx == IF e > Len(mm.modalContent) THEN Len(mm.modalContent) ELSE e
    IN /\ Len(mm.modalContent) > 0
       /\ (mm.modalScroll < 0 \/ mm.modalScroll > endIdx)

View(mm) ==
    IF mm.width = 0 \/ Len(mm.columns) = 0 THEN [m |-> mm, panic |-> FALSE]
    ELSE [m |-> [mm EXCEPT !.columns =
                    [i \in 1..Len(mm.columns) |->
                        [mm.columns[i] EXCEPT !.height = bodyHeightOf(mm)]]],
          panic |-> mm.modalEditor /\ renderModalOverlayPanics(mm)]

(***************************************************************************)
(* Commands in flight.                                                     *)
(***************************************************************************)
RECURSIVE BagSum(_, _)
BagSum(B, S) ==
    IF S = {} THEN 0
    ELSE LET r == CHOOSE r \in S : TRUE IN B[r] + BagSum(B, S \ {r})

\* requests whose column is no longer among the first keep columns lose
\* their target
Detach(r, keep) == IF r.target >= keep THEN [r EXCEPT !.target = -1] ELSE r

DetachAll(B, keep) ==
    LET S == BagToSet(B)
        T == {Detach(r, keep) : r \in S}
    IN [t \in T |-> BagSum(B, {r \in S : Detach(r, keep) = t})]

SeqToBag(cmds) ==
    LET S == Range(cmds)
    IN [r \in S |-> Cardinality({i \in 1..Len(cmds) : cmds[i] = r})]

Outstanding(r) == r \in BagToSet(pending)

\* hist: what the last key was ("drill", "back" or "other"), the active
\* column it was pressed at, the stack before a drill-down (and before a
\* back-navigation at column 0), and, for a back-navigation that follows a
\* drill-down immediately, the stack and active column before that drill-down
HistNone ==
    [key |-> "other", activeColumn |-> 0, columns |-> <<>>,
     afterDrill |-> FALSE, base |-> <<>>, baseActive |-> 0,
     snap |-> <<>>, ins |-> 0, del |-> 0]
HistDrill ==
    [HistNone EXCEPT !.key = "drill", !.activeColumn = m.activeColumn,
                     !.columns = m.columns]
HistBack ==
    [HistNone EXCEPT !.key = "back", !.activeColumn = m.activeColumn,
                     !.columns = IF m.activeColumn = 0 THEN m.columns ELSE <<>>,
                     !.afterDrill = (hist.key = "drill"),
                     !.base = IF hist.key = "drill" THEN hist.columns ELSE <<>>,
                     !.baseActive = IF hist.key = "drill"
                                    THEN hist.activeColumn ELSE 0]

\* In the editor hist follows a run of typed characters and the backspaces
\* after it (ins, del, and the buffer and cursor before the run), an enter
\* and the backspace after it, and an F2 commit ("rejected" with the model
\* and the commands in flight before it when the buffer does not parse)
Buffer(mm) ==
    [content |-> mm.modalContent, cursor |-> mm.modalCursor,
     col |-> mm.modalColCursor]
HistTyped ==
    IF hist.key = "typed" /\ hist.del = 0
    THEN [hist EXCEPT !.ins = @ + 1]
    ELSE [HistNone EXCEPT !.key = "typed", !.ins = 1, !.snap = Buffer(m)]
HistEnter == [HistNone EXCEPT !.key = "enter", !.snap = Buffer(m)]
HistBackspace ==
    IF hist.key = "typed" /\ hist.del < hist.ins
    THEN [hist EXCEPT !.del = @ + 1]
    ELSE IF hist.key = "enter" THEN [hist EXCEPT !.key = "enterback"]
    ELSE HistNone
\* delete in the editor: the buffer and the cursor before it
HistDelete == [HistNone EXCEPT !.key = "delete", !.snap = Buffer(m)]
HistCommit ==
    IF Unmarshals(JoinLines(m.modalContent))
    THEN [HistNone EXCEPT !.key = "commit"]
    ELSE [HistNone EXCEPT !.key = "rejected",
                          !.snap = [m |-> m, pending |-> pending]]

\* a failed load: the stack and the active column before the errorMsg
HistFailed ==
    [HistNone EXCEPT !.key = "failed", !.activeColumn = m.activeColumn,
                     !.columns = m.columns]

\* esc in the editor: the model and the commands in flight before it
HistEsc ==
    [HistNone EXCEPT !.key = "cancelled",
                     !.snap = [m |-> m, pending |-> pending]]

\* a page of records delivered for the command r from a collection that
\* holds the records held
HistListed(r, held) ==
    [HistNone EXCEPT !.key = "listed",
                     !.snap = [target |-> r.target, held |-> Len(held)]]

CursorsBounded(mm) ==
    /\ \A i \in 1..Len(mm.columns) :
          mm.columns[i].cursor \in -CursorBound..CursorBound
    /\ mm.modalCursor \in -CursorBound..CursorBound

\* lastPreview where the preview commands are not followed
NotFollowed == [kind |-> "not followed"]
Following == lastPreview.kind # "not followed"

\* the preview commands of a bag of commands, and the others
Previews(B) ==
    LET S == {r \in BagToSet(B) : r.kind = "preview"} IN [r \in S |-> B[r]]
Loads(B) ==
    LET S == {r \in BagToSet(B) : r.kind # "preview"} IN [r \in S |-> B[r]]

\* one turn of the event loop: Update has returned r (or panicked), the
\* commands start, View runs; done is the command whose message was handled
Step(r, done, h) ==
    /\ pc = "running"
    /\ CursorsBounded(r.m)
    /\ LET previews == SelectSeq(r.cmds, LAMBDA c : c.kind = "preview")
           started == IF Following THEN r.cmds
                      ELSE SelectSeq(r.cmds, LAMBDA c : c.kind # "preview")
           left == DetachAll(pending (-) done, r.keep)
           p == left (+) SeqToBag(started)
       IN /\ BagCardinality(Loads(p)) <= MaxPending
          /\ BagCardinality(Previews(p)) <= MaxPreviews
          /\ lastPreview' = IF r.panic \/ ~Following \/ previews = <<>>
                            THEN lastPreview
                            ELSE previews[Len(previews)]
          /\ IF r.panic
             THEN /\ pc' = "panic"
                  /\ pending' = pending (-) done
                  /\ m' = m
             ELSE /\ pc' = IF View(r.m).panic THEN "panic" ELSE "running"
                  /\ pending' = p
                  /\ m' = View(r.m).m
    /\ hist' = h
    /\ edits' = IF r.panic THEN edits
                ELSE IF ~m.modalEditor \/ ~r.m.modalEditor THEN 0
                ELSE IF r.m.modalContent # m.modalContent THEN edits + 1
                ELSE edits

(***************************************************************************)
(* Actions: one per key and per completion event.                         *)
(***************************************************************************)
WindowSize == \E h \in WinHeights : Step(windowSizeMsg(m, WinWidth, h), EmptyBag, HistNone)
KeyUp == ~m.modalEditor /\ Step(keyUp(m), EmptyBag, HistNone)
KeyDown == ~m.modalEditor /\ Step(keyDown(m), EmptyBag, HistNone)
KeyPgUp == ~m.modalEditor /\ Step(keyPgUp(m), EmptyBag, HistNone)
KeyPgDown == ~m.modalEditor /\ Step(keyPgDown(m), EmptyBag, HistNone)
KeyHome == ~m.modalEditor /\ Step(keyHome(m), EmptyBag, HistNone)
KeyEnd == ~m.modalEditor /\ Step(keyEnd(m), EmptyBag, HistNone)
KeyRight == ~m.modalEditor /\ Step(keyRight(m), EmptyBag, HistDrill)
KeyLeft == ~m.modalEditor /\ Step(keyLeft(m), EmptyBag, HistBack)
KeyF9 == ~m.modalEditor /\ Step(keyF9(m), EmptyBag, HistNone)

\* "ctrl+c", "q", "f10": tea.Quit
KeyQuit ==
    /\ pc = "running"
    /\ pc' = "quit"
    /\ hist' = HistNone
    /\ UNCHANGED <<m, pending, edits, lastPreview>>

\* loadEntitySets delivers entitySetsMsg
EntitySetsLoaded ==
    \E r \in BagToSet(pending) : \E names \in EntitySetsOf(r.svc) :
        /\ r.kind = "loadEntitySets"
        /\ Step(entitySetsMsg(m, names), SetToBag({r}), HistNone)

\* loadEntities delivers entitiesMsg
EntitiesLoaded ==
    \E r \in BagToSet(pending) : \E held \in Holdings :
        /\ r.kind = "loadEntities"
        /\ LET page == GetEntitiesWithCount(held, Limit)
           IN Step(entitiesMsg(m, [entitySet |-> r.entitySet,
                                   entities |-> page.entities,
                                   hasMore |-> page.hasMore]),
                   SetToBag({r}), HistListed(r, held))

\* the same from a collection of at most one record
FewEntitiesLoaded == EntitiesLoaded /\ hist'.snap.held <= 1

\* the $metadata command of drillDown delivers entitiesMsg{"Metadata", ...}
MetadataLoaded ==
    \E r \in BagToSet(pending) : \E body \in MetadataBodies :
        /\ r.kind = "metadata"
        /\ Step(entitiesMsg(m, [entitySet |-> "Metadata",
                                entities |-> <<[metadata |-> Str(body)]>>,
                                hasMore |-> FALSE]),
                SetToBag({r}), HistNone)

\* any of the three fails and delivers errorMsg
LoadFailed ==
    \E r \in BagToSet(pending) :
        /\ r.kind \in {"loadEntitySets", "loadEntities", "metadata"}
        /\ Step(errorMsg(m, r.kind), SetToBag({r}), HistFailed)

\* the command of updatePreview delivers previewMsg
PreviewLoaded ==
    \E r \in BagToSet(pending) :
        /\ r.kind = "preview"
        /\ \E msg \in PreviewAnswers(r) :
               Step(previewMsg(m, msg), SetToBag({r}), HistNone)

\* case "f3"
KeyF3 == ~m.modalEditor /\ Step(readEntityDetails(m), EmptyBag, HistNone)

\* the records a GetEntity may answer with
Served == {E1, E2}

\* the command of readEntityDetails delivers entityDetailMsg with the record
\* of the key asked for
EntityRead ==
    \E r \in BagToSet(pending) : \E entity \in Served :
        /\ r.kind = "readEntity"
        /\ extractEntityKey(entity) = r.entityKey
        /\ Step(entityDetailMsg(m, entity), SetToBag({r}), HistNone)

\* or errorMsg
ReadFailed ==
    \E r \in BagToSet(pending) :
        /\ r.kind = "readEntity"
        /\ Step(errorMsg(m, "readEntity(" \o r.entitySet \o ", "
                                \o r.entityKey \o ")"),
                SetToBag({r}), HistNone)

\* the keys of the editor
EditChars == {"a"}

OpenCreate == ~m.modalEditor /\ Step(keyF2(m), EmptyBag, HistNone)
OpenUpdate == ~m.modalEditor /\ Step(keyF4(m), EmptyBag, HistNone)
OpenCopy == ~m.modalEditor /\ Step(keyF5(m), EmptyBag, HistNone)
EditEsc == m.modalEditor /\ Step(editEsc(m), EmptyBag, HistEsc)
EditCommit == m.modalEditor /\ Step(saveModalChanges(m), EmptyBag, HistCommit)
EditUp == m.modalEditor /\ Step(editUp(m), EmptyBag, HistNone)
EditDown == m.modalEditor /\ Step(editDown(m), EmptyBag, HistNone)
EditLeft == m.modalEditor /\ Step(editLeft(m), EmptyBag, HistNone)
EditRight == m.modalEditor /\ Step(editRight(m), EmptyBag, HistNone)
EditEnter == m.modalEditor /\ Step(editEnter(m), EmptyBag, HistEnter)
EditBackspace == m.modalEditor /\ Step(editBackspace(m), EmptyBag, HistBackspace)
EditDelete == m.modalEditor /\ Step(editDelete(m), EmptyBag, HistDelete)
EditPgUp == m.modalEditor /\ Step(editPgUp(m), EmptyBag, HistNone)
EditPgDown == m.modalEditor /\ Step(editPgDown(m), EmptyBag, HistNone)
EditHome == m.modalEditor /\ Step(editHome(m), EmptyBag, HistNone)
EditEnd == m.modalEditor /\ Step(editEnd(m), EmptyBag, HistNone)
EditCtrlHome == m.modalEditor /\ Step(editCtrlHome(m), EmptyBag, HistNone)
EditCtrlEnd == m.modalEditor /\ Step(editCtrlEnd(m), EmptyBag, HistNone)
EditChar ==
    \E char \in EditChars :
        m.modalEditor /\ Step(editChar(m, char), EmptyBag, HistTyped)

\* the command of saveModalChanges delivers saveSuccessMsg, or errorMsg
SaveSucceeded ==
    \E r \in BagToSet(pending) :
        /\ r.kind \in {"create", "copy", "update"}
        /\ Step(saveSuccessMsg(m, r.kind), SetToBag({r}), HistNone)

SaveFailed ==
    \E r \in BagToSet(pending) :
        /\ r.kind \in {"create", "copy", "update"}
        /\ Step(errorMsg(m, r.kind \o " operation"), SetToBag({r}), HistNone)

(***************************************************************************)
(* Navigation: drill-down, back-navigation, line-wise cursor movement and  *)
(* the completion events, from the initial model.  The paging keys are in  *)
(* SpecCursor, the modal editor is in SpecEdit.                            *)
(***************************************************************************)
Init ==
    /\ m = initialModel(ServiceNames)
    /\ pending = EmptyBag
    /\ pc = "running"
    /\ hist = HistNone
    /\ edits = 0
    /\ lastPreview = NotFollowed

Next ==
    \/ WindowSize
    \/ KeyUp
    \/ KeyDown
    \/ KeyRight
    \/ KeyLeft
    \/ EntitySetsLoaded
    \/ FewEntitiesLoaded
    \/ MetadataLoaded
    \/ LoadFailed

Spec == Init /\ [][Next]_vars

(***************************************************************************)
(* Cursor movement: every cursor key, the log-panel toggle and resizes on  *)
(* a stack of at most MaxDepth columns, with the built-in service list.    *)
(***************************************************************************)
MaxDepth == 2

DefaultServices == <<"OData.org Demo", "Northwind V3", "TripPin (V4)">>

CursorHeights == {6, 10}

ShallowDrill == Len(m.columns) < MaxDepth /\ KeyRight

Resize ==
    \E h \in CursorHeights : Step(windowSizeMsg(m, WinWidth, h), EmptyBag, HistNone)

InitCursor ==
    /\ m = initialModel(DefaultServices)
    /\ pending = EmptyBag
    /\ pc = "running"
    /\ hist = HistNone
    /\ edits = 0
    /\ lastPreview = NotFollowed

NextCursor ==
    \/ Resize
    \/ KeyUp
    \/ KeyDown
    \/ KeyPgUp
    \/ KeyPgDown
    \/ KeyHome
    \/ KeyEnd
    \/ KeyF9
    \/ ShallowDrill
    \/ KeyLeft
    \/ EntitySetsLoaded
    \/ LoadFailed

SpecCursor == InitCursor /\ [][NextCursor]_vars

(***************************************************************************)
(* Navigation claims.                                                      *)
(***************************************************************************)

\* C1: in every state reached by drill-down and back-navigation presses
\* (a drill-down on the deepest column included) activeColumn is a valid
\* index into the column stack and exactly one column is focused, the one at
\* activeColumn.
C1_OneFocusedColumn ==
    /\ m.activeColumn \in 0..(Len(m.columns) - 1)
    /\ \A i \in 1..Len(m.columns) :
           m.columns[i].focused <=> (i - 1 = m.activeColumn)

\* The contents of the stack: items, records, cursor and scroll offset of
\* every column
Contents(cols) ==
    [i \in 1..Len(cols) |->
        [items |-> cols[i].items, entities |-> cols[i].entities,
         cursor |-> cols[i].cursor, scrollOffset |-> cols[i].scrollOffset]]

\* C2: the delivery of a list-collections or list-records completion whose
\* target column has been removed changes no column's items, records, cursor
\* or scroll offset.
C2_StaleCompletionIgnored ==
    [][\A r \in BagToSet(pending) :
          (/\ r.target = -1
           /\ r.kind \in {"loadEntitySets", "loadEntities"}
           /\ pending' = pending (-) SetToBag({r})
           /\ pending' # pending
           /\ pc' = "running")
          => Contents(m'.columns) = Contents(m.columns)]_vars

\* The stack and active column are those of before the drill-down, for every
\* column's items, cursor and scroll offset
Restored ==
    /\ Len(m.columns) = Len(hist.base)
    /\ m.activeColumn = hist.baseActive
    /\ \A i \in 1..Len(m.columns) :
           /\ m.columns[i].items = hist.base[i].items
           /\ m.columns[i].cursor = hist.base[i].cursor
           /\ m.columns[i].scrollOffset = hist.base[i].scrollOffset

C4_BackPopsOneColumn ==
    hist.key = "back" =>
        IF hist.activeColumn > 0
        THEN /\ Len(m.columns) = hist.activeColumn
             /\ m.activeColumn = hist.activeColumn - 1
        ELSE /\ m.columns = hist.columns
             /\ m.activeColumn = 0

\* a back-navigation from the fourth column has been taken
C4_Witness ==
    /\ hist.key = "back" /\ hist.activeColumn = 3
    /\ Len(m.columns) = 3
    /\ pc = "running"

\* C5: once the terminal size is known, every column with a non-empty item
\* list has 0 <= cursor < len(items), after every cursor key, at every
\* terminal height, and after every completion event.
C5_CursorInRange ==
    m.width > 0 =>
        \A i \in 1..Len(m.columns) :
            m.columns[i].items # <<>> =>
                (0 <= m.columns[i].cursor
                 /\ m.columns[i].cursor < Len(m.columns[i].items))

(***************************************************************************)
(* The editor: opened on the initial model before the first size message   *)
(* and on a record's Details column, every editor key, and the completion  *)
(* of the save.                                                            *)
(***************************************************************************)
EditHeights == {7}

\* the model Update and View leave after a message
After(r) == View(r.m).m

\* the result of: size message, drill-down on the service, its collections
\* listed, down, drill-down on the collection
Listing(h) ==
    LET m1 == After(windowSizeMsg(initialModel(ServiceNames), WinWidth, h))
        m2 == After(drillDown(m1))
        m3 == After(entitySetsMsg(m2, <<"Products">>))
        m4 == After(keyDown(m3))
    IN drillDown(m4)

\* the model after that, the records of the collection listed, and
\* drill-down on the record
AtDetails(h) ==
    LET m5 == After(Listing(h))
        m6 == After(entitiesMsg(m5, [entitySet |-> "Products",
                                     entities |-> <<E2>>, hasMore |-> FALSE]))
    IN After(drillDown(m6))

InitEdit ==
    /\ m \in {initialModel(ServiceNames)} \cup {AtDetails(h) : h \in EditHeights}
    /\ pending = EmptyBag
    /\ pc = "running"
    /\ hist = HistNone
    /\ edits = 0
    /\ lastPreview = NotFollowed

\* the buffer-changing keys are bounded by MaxEdits per session
MayEdit == edits < MaxEdits

NextEdit ==
    \/ OpenCreate
    \/ OpenUpdate
    \/ OpenCopy
    \/ EditEsc
    \/ EditUp
    \/ EditDown
    \/ EditLeft
    \/ EditRight
    \/ EditPgUp
    \/ EditPgDown
    \/ EditHome
    \/ EditEnd
    \/ EditCtrlHome
    \/ EditCtrlEnd
    \/ MayEdit /\ EditEnter
    \/ MayEdit /\ EditBackspace
    \/ MayEdit /\ EditDelete
    \/ MayEdit /\ EditChar

SpecEdit == InitEdit /\ [][NextEdit]_vars

(***************************************************************************)
(* Listing the records: from the drill-down on a collection, with its     *)
(* request in flight, the line-wise keys, drill-down, back-navigation and  *)
(* the completion of the request for every holding of the collection.      *)
(***************************************************************************)
InitList ==
    /\ \E h \in WinHeights :
          /\ m = After(Listing(h))
          /\ pending = Loads(SeqToBag(Listing(h).cmds))
    /\ pc = "running"
    /\ hist = HistNone
    /\ edits = 0
    /\ lastPreview = NotFollowed

NextList ==
    \/ KeyUp
    \/ KeyDown
    \/ KeyRight
    \/ KeyLeft
    \/ EntitySetsLoaded
    \/ EntitiesLoaded
    \/ MetadataLoaded
    \/ LoadFailed

SpecList == InitList /\ [][NextList]_vars

(***************************************************************************)
(* Typing and committing: the editor opened on a record's Details column   *)
(* with the cursor moved to any position of the buffer, then characters,   *)
(* backspace, enter, the F2 commit and the completion of the save.         *)
(***************************************************************************)
RECURSIVE Pressed(_, _)
\* the model after k presses of "right"
Pressed(mm, k) == IF k = 0 THEN mm ELSE Pressed(After(editRight(mm)), k - 1)

\* characters and line ends of the buffer: presses of "right" that move
Positions(mm) == 0..(BagSum([i \in 1..Len(mm.modalContent) |->
                               Len(mm.modalContent[i]) + 1],
                            1..Len(mm.modalContent)) - 1)

Opened == {After(keyF2(AtDetails(h))) : h \in EditHeights}
              \cup {After(editCtrlHome(After(keyF2(AtDetails(h))))) : h \in EditHeights}
              \cup {After(keyF4(AtDetails(h))) : h \in EditHeights}

InitType ==
    /\ \E o \in Opened : \E k \in Positions(o) : m = Pressed(o, k)
    /\ pending = EmptyBag
    /\ pc = "running"
    /\ hist = HistNone
    /\ edits = 0
    /\ lastPreview = NotFollowed

MayType == edits < MaxTyped

NextType ==
    \/ MayType /\ EditChar
    \/ MayType /\ EditBackspace
    \/ MayType /\ EditEnter
    \/ EditCommit
    \/ SaveSucceeded
    \/ SaveFailed

SpecType == InitType /\ [][NextType]_vars

(***************************************************************************)
(* Editor claims.                                                          *)
(***************************************************************************)

\* C6: while the editor is open on a sized terminal and the cursor is on a
\* line of the buffer, 0 <= modalColCursor <= length of that line, after
\* every editor key (pgup and pgdown included).
C6_ColumnWithinLine ==
    (/\ m.modalEditor /\ m.width > 0
     /\ m.modalCursor \in 0..(Len(m.modalContent) - 1))
        => m.modalColCursor \in 0..Len(m.modalContent[m.modalCursor + 1])

\* C7: every editor key that changes the cursor line, on a terminal that
\* shows at least one line of the buffer, leaves
\* modalScroll <= modalCursor < modalScroll + visible height.
C7_CursorLineVisible ==
    [][(/\ m.modalEditor /\ m'.modalEditor
        /\ m'.modalCursor # m.modalCursor
        /\ ModalHeight(m) >= 1)
       => (/\ m'.modalScroll <= m'.modalCursor
           /\ m'.modalCursor < m'.modalScroll + ModalHeight(m'))]_vars

ValidPosition(b) ==
    /\ b.cursor \in 0..(Len(b.content) - 1)
    /\ b.col \in 0..Len(b.content[b.cursor + 1])

\* C8: n characters typed at a valid cursor position and then n backspaces
\* leave the buffer, the cursor line and the cursor column as they were
\* before the first character.
C8_TypedThenErasedRestores ==
    (hist.key = "typed" /\ hist.del = hist.ins /\ ValidPosition(hist.snap))
        => Buffer(m) = hist.snap

\* three characters typed inside a line and erased again
C8_Witness ==
    /\ hist.key = "typed" /\ hist.ins = 3 /\ hist.del = 3
    /\ hist.snap.col \in 1..(Len(hist.snap.content[hist.snap.cursor + 1]) - 1)
    /\ pc = "running"

\* C9: enter and then immediately backspace leave the buffer, the cursor
\* line and the cursor column as they were before the enter.
C9_EnterThenBackspaceRestores ==
    hist.key = "enterback" => Buffer(m) = hist.snap

\* a line split inside and joined again
C9_Witness ==
    /\ hist.key = "enterback"
    /\ hist.snap.col \in 1..(Len(hist.snap.content[hist.snap.cursor + 1]) - 1)
    /\ pc = "running"

\* C10: an F2 commit of a buffer that does not parse leaves the editor open,
\* changes no field of the model but the log, and dispatches no request.
C10_RejectedCommitChangesOnlyLog ==
    hist.key = "rejected" =>
        /\ m.modalEditor
        /\ m = [hist.snap.m EXCEPT !.logs = m.logs]
        /\ pending = hist.snap.pending

\* an edited buffer that does not parse has been committed
C10_Witness ==
    /\ hist.key = "rejected"
    /\ edits > 0
    /\ m.logs = <<"Invalid JSON">>
    /\ pc = "running"

(***************************************************************************)
(* The preview: model.Init issues the first preview command; the keys that *)
(* move the cursor or the active column, the loads and the messages of     *)
(* the preview commands follow, on a stack of at most PreviewDepth         *)
(* columns.                                                                *)
(***************************************************************************)
PreviewDepth == 2

\* func (m model) Init() tea.Cmd
InitPreview ==
    /\ m = initialModel(ServiceNames)
    /\ pending = SeqToBag(updatePreview(m))
    /\ pc = "running"
    /\ hist = HistNone
    /\ edits = 0
    /\ lastPreview = updatePreview(m)[1]

DrillPreviewed == m.activeColumn + 1 < PreviewDepth /\ KeyRight

NextPreview ==
    \/ WindowSize
    \/ KeyUp
    \/ KeyDown
    \/ KeyPgUp
    \/ KeyPgDown
    \/ KeyHome
    \/ KeyEnd
    \/ DrillPreviewed
    \/ KeyLeft
    \/ EntitySetsLoaded
    \/ LoadFailed
    \/ PreviewLoaded

SpecPreview == InitPreview /\ [][NextPreview]_vars

(***************************************************************************)
(* Completion of the save.                                                 *)
(***************************************************************************)
SaveKinds == {"create", "copy", "update"}

\* C11: when the update request a commit dispatched succeeds, the editor is
\* closed and the Details column shows the committed text (the buffer of
\* the commit, which no key has changed since).
C11_SuccessReplacesDetails ==
    [][(/\ hist.key = "commit"
        /\ m.modalOperation = "update"
        /\ BagCardinality(pending) = 1
        /\ pending' = EmptyBag
        /\ m'.logs = <<"SUCCESS: update">>)
       => (/\ ~m'.modalEditor
           /\ \A i \in 1..Len(m'.columns) :
                 m'.columns[i].isDetails
                     => m'.columns[i].items = m.modalContent)]_vars

\* C12: when the request a commit dispatched fails, the editor is closed,
\* the error is in the log and no request is issued again.
C12_FailureClosesEditor ==
    [][(/\ m.modalEditor
        /\ \E r \in BagToSet(pending) :
              /\ r.kind \in SaveKinds
              /\ pending' = pending (-) SetToBag({r})
              /\ m'.logs = <<"ERROR [" \o r.kind \o " operation]">>)
       => (/\ ~m'.modalEditor
           /\ HasPrefix(m'.logs[1], "ERROR"))]_vars

(***************************************************************************)
(* Navigation claims on the completion events.                             *)
(***************************************************************************)

\* C13: drill-down from the service column leaves two columns, the second
\* holding only "Loading..." with activeColumn = 1; when the request for
\* the collections then succeeds with names N1..Nk, the items of the second
\* column are exactly N1..Nk and its cursor is still 0.
C13_CollectionsListed ==
    [][/\ (/\ hist'.key = "drill" /\ hist'.activeColumn = 0
           /\ pc' = "running")
          => (/\ Len(m'.columns) = 2
              /\ m'.columns[2].items = <<"Loading...">>
              /\ m'.activeColumn = 1)
       /\ \A r \in BagToSet(pending) :
             (/\ r.kind = "loadEntitySets" /\ r.target = 1
              /\ pending' = pending (-) SetToBag({r})
              /\ m'.logs = <<"Loaded entity sets">>
              /\ m.columns[2].items = <<"Loading...">>)
                => (/\ m'.columns[2].items \in EntitySetsOf(r.svc)
                    /\ m'.columns[2].cursor = 0)]_vars

\* C14: after a list-records request with limit Limit has completed for a
\* record-list column still in the stack: a collection holding more than
\* Limit records leaves Limit records and Limit + 1 items, the last one
\* the more-items marker; one holding k records, 0 < k <= Limit, leaves k
\* records and k items; an empty one leaves no record and the one item
\* "(No items)".
C14_PageListed ==
    (hist.key = "listed" /\ hist.snap.target >= 0) =>
        LET col == m.columns[hist.snap.target + 1]
            k == hist.snap.held
        IN IF k > Limit
           THEN /\ Len(col.entities) = Limit
                /\ Len(col.items) = Limit + 1
                /\ col.items[Limit + 1] = "[...more items]"
           ELSE IF k > 0
           THEN Len(col.entities) = k /\ Len(col.items) = k
           ELSE col.entities = <<>> /\ col.items = <<"(No items)">>

\* a collection holding more records than the limit has been listed
C14_Witness ==
    /\ hist.key = "listed"
    /\ hist.snap.target = 2
    /\ hist.snap.held > Limit
    /\ m.columns[3].title = "Products"
    /\ pc = "running"

\* C18: drill-down from a record-list column appends a Details column
\* holding exactly one record when a record is loaded at the cursor;
\* without one (cursor on "Loading...", "(No items)" or the more-items
\* marker) the stack and activeColumn stay as they were.
C18_DetailsOnlyForRecord ==
    [][(/\ hist'.key = "drill" /\ hist'.activeColumn = 2
        /\ ~m.columns[3].isDetails
        /\ pc' = "running")
       => IF m.columns[3].cursor < Len(m.columns[3].entities)
          THEN /\ Len(m'.columns) = 4
               /\ m'.columns[4].isDetails
               /\ Len(m'.columns[4].entities) = 1
               /\ m'.activeColumn = 3
          ELSE /\ Contents(m'.columns) = Contents(m.columns)
               /\ m'.activeColumn = m.activeColumn]_vars

C20_CancelChangesOnlyEditor ==
    hist.key = "cancelled" =>
        /\ ~m.modalEditor
        /\ m.modalContent = <<>>
        /\ m = [hist.snap.m EXCEPT !.modalEditor = FALSE,
                                   !.modalContent = <<>>,
                                   !.modalCursor = 0,
                                   !.modalScroll = 0,
                                   !.modalColCursor = 0,
                                   !.modalOperation = "",
                                   !.logs = m.logs]
        /\ pending = hist.snap.pending

\* an edited buffer has been cancelled on a Details column
C20_Witness ==
    /\ hist.key = "cancelled"
    /\ hist.snap.m.modalContent # ActiveCol(m).items
    /\ Len(hist.snap.m.modalContent) > 0
    /\ ActiveCol(m).isDetails
    /\ pc = "running"

(***************************************************************************)
(* Preview claims.                                                         *)
(***************************************************************************)

\* what the preview column shows once the message of command r is handled
PreviewItems(r) ==
    {previewMsg(m, msg).m.previewColumn.items : msg \in PreviewAnswers(r)}

\* C15: once no preview command is in flight, the items of the preview
\* column are the content requested by the preview command issued last,
\* in whatever order the messages arrived.
C15_LastRequestShown ==
    (/\ lastPreview.kind = "preview"
     /\ Previews(pending) = EmptyBag)
        => m.previewColumn.items \in PreviewItems(lastPreview)

\* the cursor of the active column is on one of its items
OnItem(mm) == ActiveCol(mm).cursor \in 0..(Len(ActiveCol(mm).items) - 1)

\* C16: a key (up, down, page-up, page-down, home, end) that moves the
\* cursor of the active column from one item to another starts the preview
\* command of the new position when the column is not a details column,
\* and starts none when it is.
C16_MovementRefreshesPreview ==
    [][(/\ Following
        /\ pc' = "running"
        /\ m'.activeColumn = m.activeColumn
        /\ Len(m'.columns) = Len(m.columns)
        /\ OnItem(m) /\ OnItem(m')
        /\ ActiveCol(m').cursor # ActiveCol(m).cursor)
       => IF ActiveCol(m).isDetails
          THEN Previews(pending') = Previews(pending)
          ELSE Previews(pending')
                   = Previews(pending) (+) SeqToBag(updatePreview(m'))]_vars

\* C17: the step that issues a preview command leaves previewLoading TRUE
\* and the items of the preview column as they were.
C17_LoadingWhileRequested ==
    [][(/\ Following
        /\ BagCardinality(Previews(pending'))
               > BagCardinality(Previews(pending)))
       => (/\ m'.previewLoading
           /\ m'.previewColumn.items = m.previewColumn.items)]_vars

(***************************************************************************)
(* Refused entry into the editor.                                          *)
(***************************************************************************)
\* the two log entries of a refused Update or Copy
RefusalTexts ==
    {"Update/Copy only available for entity details",
     "No entity selected for update/copy"}

\* the active column is a record-detail column holding a loaded record
OnLoadedRecord(mm) ==
    /\ mm.activeColumn >= 0
    /\ mm.activeColumn < Len(mm.columns)
    /\ ActiveCol(mm).isDetails
    /\ Len(ActiveCol(mm).entities) > 0

\* C21: F4 or F5 pressed while the active column is not a record-detail
\* column holding a loaded record leaves the editor closed and changes
\* nothing of the model but the log: the column stack, the buffer, the
\* cursor fields and the operation mode are as they were.
C21_RefusalChangesOnlyLog ==
    [][(/\ ~m.modalEditor
        /\ ~OnLoadedRecord(m)
        /\ pc' = "running"
        /\ m'.logs[1] \in RefusalTexts)
       => /\ ~m'.modalEditor
          /\ m' = [m EXCEPT !.logs = m'.logs]]_vars

(***************************************************************************)
(* Invariants of the column stack.                                         *)
(***************************************************************************)
\* C22: in every state every column of the stack has
\* 0 <= scrollOffset <= cursor, whatever the height of the terminal and
\* also before the first window-size event.
C22_ScrollWithinCursor ==
    pc = "running"
    => \A i \in 1..Len(m.columns) :
          /\ 0 <= m.columns[i].scrollOffset
          /\ m.columns[i].scrollOffset <= m.columns[i].cursor

\* C23: in every state every column of the stack, a record list, the
\* metadata column and a record-detail column alike, holds either no
\* records or no more records than items.
C23_RecordsWithinItems ==
    \A i \in 1..Len(m.columns) :
       \/ Len(m.columns[i].entities) = 0
       \/ Len(m.columns[i].entities) <= Len(m.columns[i].items)

(***************************************************************************)
(* Drill-down at the end of the stack.                                     *)
(***************************************************************************)
\* C27: drill-down while a record-detail column is active, a Details column
\* at index 3 or the Metadata column at index 2, appends no column, leaves
\* activeColumn as it was and issues no request.
C27_DrillOnDetailsIsNoOp ==
    [][(/\ hist'.key = "drill"
        /\ pc' = "running"
        /\ m.activeColumn < Len(m.columns)
        /\ ActiveCol(m).isDetails)
       => /\ Len(m'.columns) = Len(m.columns)
          /\ m'.activeColumn = m.activeColumn
          /\ pending' = pending]_vars

(***************************************************************************)
(* The cursor line of the editor.                                          *)
(***************************************************************************)
\* C29: while the editor is open, after any editor keys and for every
\* height of the terminal, the buffer has at least one line and
\* 0 <= modalCursor < number of lines.
C29_CursorLineWithinBuffer ==
    (m.modalEditor /\ pc = "running")
        => /\ Len(m.modalContent) >= 1
           /\ m.modalCursor \in 0..(Len(m.modalContent) - 1)

(***************************************************************************)
(* Delete-forward.                                                         *)
(***************************************************************************)
RECURSIVE TotalChars(_)
\* the characters of all lines of a buffer
TotalChars(content) ==
    IF Len(content) = 0 THEN 0
    ELSE Len(content[1]) + TotalChars(Tail(content))

\* C30: delete at a valid cursor position: before the end of the line it
\* removes the character at the cursor; at the end of a line that is not
\* the last it appends the next line to the line and removes the next
\* line; at the end of the last line it changes nothing.  In all three
\* cases the cursor line and column stay and the number of characters
\* decreases by at most one.
C30_DeleteMirrorsBackspace ==
    (hist.key = "delete" /\ pc = "running" /\ ValidPosition(hist.snap))
        => LET b == hist.snap
               line == b.content[b.cursor + 1]
               n == Len(b.content)
           IN /\ m.modalCursor = b.cursor
              /\ m.modalColCursor = b.col
              /\ TotalChars(b.content) - TotalChars(m.modalContent) \in {0, 1}
              /\ IF b.col < Len(line)
                 THEN /\ Len(m.modalContent) = n
                      /\ \A i \in 1..n :
                            m.modalContent[i] =
                                IF i = b.cursor + 1
                                THEN SubSeq(line, 1, b.col)
                                         \o SubSeq(line, b.col + 2, Len(line))
                                ELSE b.content[i]
                 ELSE IF b.cursor + 1 < n
                 THEN /\ Len(m.modalContent) = n - 1
                      /\ \A i \in 1..(n - 1) :
                            m.modalContent[i] =
                                IF i < b.cursor + 1 THEN b.content[i]
                                ELSE IF i = b.cursor + 1
                                THEN line \o b.content[i + 1]
                                ELSE b.content[i + 1]
                 ELSE m.modalContent = b.content

\* delete at the end of a line that is not the last has joined the next
\* line to it
C30_Witness ==
    /\ hist.key = "delete"
    /\ pc = "running"
    /\ ValidPosition(hist.snap)
    /\ hist.snap.col = Len(hist.snap.content[hist.snap.cursor + 1])
    /\ hist.snap.col > 0
    /\ Len(m.modalContent) = Len(hist.snap.content) - 1

(***************************************************************************)
(* Keys with the editor open and closed: from the initial model and from a *)
(* record-detail column, the keys that open the editor, every key of the   *)
(* editor with the commit, and the keys down and back.                     *)
(***************************************************************************)
\* a commit while no command is in flight
LoneCommit == pending = EmptyBag /\ EditCommit

\* the first key of an editor session that changes the buffer
FirstEdit == edits = 0

NextKeys ==
    \/ KeyDown
    \/ KeyLeft
    \/ OpenCreate
    \/ OpenUpdate
    \/ OpenCopy
    \/ EditEsc
    \/ LoneCommit
    \/ EditUp
    \/ EditDown
    \/ EditLeft
    \/ EditRight
    \/ EditPgUp
    \/ EditPgDown
    \/ EditHome
    \/ EditEnd
    \/ EditCtrlHome
    \/ EditCtrlEnd
    \/ FirstEdit /\ EditEnter
    \/ FirstEdit /\ EditBackspace
    \/ FirstEdit /\ EditDelete
    \/ FirstEdit /\ EditChar

SpecKeys == InitEdit /\ [][NextKeys]_vars

\* what C28 calls the column stack
Stack(mm) ==
    [activeColumn |-> mm.activeColumn,
     columns |-> [i \in 1..Len(mm.columns) |->
                     [items |-> mm.columns[i].items,
                      cursor |-> mm.columns[i].cursor,
                      scrollOffset |-> mm.columns[i].scrollOffset]]]

\* C28 as stated: with the editor open no key changes the number of
\* columns, activeColumn or any column's items, cursor and scrollOffset,
\* and with the editor closed no key changes the lines of the buffer.
C28_OneSideActive ==
    [][/\ m.modalEditor => Stack(m') = Stack(m)
       /\ ~m.modalEditor => m'.modalContent = m.modalContent]_vars

\* C28, amended: with the editor open no key changes the column stack, and
\* a key pressed with the editor closed that leaves it closed changes no
\* line of the buffer (F2, F4 and F5, which open the editor, fill it).
C28_OneSideActiveButEntry ==
    [][/\ m.modalEditor => Stack(m') = Stack(m)
       /\ (~m.modalEditor /\ ~m'.modalEditor)
              => m'.modalContent = m.modalContent]_vars

\* a commit was pressed in the editor opened on a record-detail column: its
\* request is in flight, the editor still open and the four columns in
\* place
C28_Witness ==
    /\ m.modalEditor
    /\ pending # EmptyBag
    /\ Len(m.columns) = 4
    /\ m.activeColumn = 3
    /\ pc = "running"

(***************************************************************************)
(* Key extraction: F3 on a listed record, for records with and without     *)
(* __metadata, with and without key fields, with nil and empty values, and *)
(* the two messages of its command.                                        *)
(***************************************************************************)
NoField == [f \in {} |-> Null]

MetaFields ==
    {NoField,
     "__metadata" :> Meta(Str("http://h/S1/Products(1)"), Null),
     "__metadata" :> Meta(Str("http://h/S1/Products"),
                          Str("http://h/S1/Products('2')")),
     "__metadata" :> Meta(Null, Str("http://h/S1/Products(1)")),
     "__metadata" :> Meta(Null, Null)}
IDFields == {NoField, "ID" :> Num("1"), "ID" :> Str("B"), "ID" :> Null}
IdFields == {NoField, "Id" :> Num("2")}
OtherFields ==
    {NoField, "Name" :> Str("A"), "Name" :> Str(""), "Name" :> Null,
     "BirthDate" :> Str("D"), "__count" :> Str("3")}

\* the records F3 is pressed on
KeyInputs ==
    {a @@ b @@ c @@ d : a \in MetaFields, b \in IDFields, c \in IdFields,
                        d \in OtherFields}

\* the collection listed with the records of page, the cursor on the first
Listed(h, page) ==
    After(entitiesMsg(After(Listing(h)),
                      [entitySet |-> "Products", entities |-> page,
                       hasMore |-> FALSE]))

InitKey ==
    /\ \E h \in WinHeights : \E e \in KeyInputs : m = Listed(h, <<e>>)
    /\ pending = EmptyBag
    /\ pc = "running"
    /\ hist = HistNone
    /\ edits = 0
    /\ lastPreview = NotFollowed

NextKey ==
    \/ KeyF3
    \/ EntityRead
    \/ ReadFailed

SpecKey == InitKey /\ [][NextKey]_vars

\* the key C25 describes: the one in the __metadata of the record when it
\* holds one, else the value of the first key field with a value, else none
DescribedKey(e) ==
    LET meta == IF "__metadata" \in DOMAIN e THEN e["__metadata"]
                ELSE Meta(Null, Null)
        id == IF meta.id.t = "str" THEN KeyInUri(meta.id.v) ELSE <<>>
        uri == IF meta.uri.t = "str" THEN KeyInUri(meta.uri.v) ELSE <<>>
        k == FirstPresent(e, KeyFields)
    IN IF id # <<>> THEN id[1]
       ELSE IF uri # <<>> THEN uri[1]
       ELSE IF k # "" THEN (IF e[k].t = "str" THEN "'" \o e[k].v \o "'"
                            ELSE e[k].v)
       ELSE ""

\* C25: the key F3 reads a record by is the key in the record's __metadata
\* when it holds one, otherwise the value of its first key field, and for a
\* record with neither the extraction fails: no read is issued.
C25_KeyFromMetadataOrKeyField ==
    LET e == m.columns[3].entities[1]
    IN \A r \in BagToSet(pending) :
          r.kind = "readEntity"
              => /\ DescribedKey(e) # ""
                 /\ r.entityKey = DescribedKey(e)

(***************************************************************************)
(* Detailed reads and updates: a collection listed with two records, F3,   *)
(* the line-wise keys, drill-down and back, F4, the commit of the buffer   *)
(* as opened, and the two messages of the read.                            *)
(***************************************************************************)
InitRead ==
    /\ \E h \in WinHeights : m = Listed(h, <<E1, E2>>)
    /\ pending = EmptyBag
    /\ pc = "running"
    /\ hist = HistNone
    /\ edits = 0
    /\ lastPreview = NotFollowed

NextRead ==
    \/ KeyF3
    \/ KeyUp
    \/ KeyDown
    \/ KeyRight
    \/ KeyLeft
    \/ OpenUpdate
    \/ EditCommit
    \/ EntityRead
    \/ ReadFailed

SpecRead == InitRead /\ [][NextRead]_vars

\* C26: the update a commit dispatches addresses the key of the record
\* whose text the buffer was opened with (no key has changed the buffer
\* since), also when a detailed read was answered between F4 and the
\* commit.
C26_CommitAddressesSeed ==
    [][(/\ hist'.key = "commit"
        /\ pc' = "running"
        /\ m.modalOperation = "update")
       => \A r \in BagToSet(pending') :
             (r.kind = "update" /\ CopiesIn(r, pending') > CopiesIn(r, pending))
                 => \A e \in Served :
                       m.modalContent = MarshalIndent(e)
                           => r.entityKey = extractEntityKey(e)]_vars

(***************************************************************************)
(* The length of the log: from the model after a first refused F4, whose   *)
(* log of two entries is kept in its length, refused F4, drill-down on the *)
(* service, back-navigation and the two messages of the list-collections   *)
(* request, until the log holds one entry more than LogLimit.              *)
(***************************************************************************)
InitLog ==
    /\ m = [After(keyF4(initialModel(ServiceNames))) EXCEPT
               !.logs = <<@[1], "">>]
    /\ pending = EmptyBag
    /\ pc = "running"
    /\ hist = HistNone
    /\ edits = 0
    /\ lastPreview = NotFollowed

LogRoom == Len(m.logs) <= LogLimit

NextLog ==
    \/ LogRoom /\ OpenUpdate
    \/ LogRoom /\ ShallowDrill
    \/ LogRoom /\ KeyLeft
    \/ LogRoom /\ EntitySetsLoaded
    \/ LogRoom /\ LoadFailed

SpecLog == InitLog /\ [][NextLog]_vars

\* C24: the log never holds more than 100 entries, after any keys and any
\* completion events, successes as well as failures.
C24_LogWithinLimit == Len(m.logs) <= LogLimit

(***************************************************************************)
(* The shape of the stack.                                                 *)
(***************************************************************************)
\* C32: in every state the active column is the last column of the stack
\* and the stack holds between 1 and 4 columns: no column is to the right
\* of the active one.
C32_ActiveColumnIsLast ==
    /\ m.activeColumn = Len(m.columns) - 1
    /\ Len(m.columns) \in 1..4

\* back-navigation from a Details column at index 3 has left three columns
C32_Witness ==
    /\ hist.key = "back"
    /\ hist.activeColumn = 3
    /\ Len(m.columns) = 3
    /\ pc = "running"

(***************************************************************************)
(* Collection names: navigation as in Spec on a service whose one          *)
(* collection is named "Products" or has the name of a column title.       *)
(***************************************************************************)
CollectionNames == {<<"Products">>, <<"EntitySets">>}

\* loadEntitySets delivers entitySetsMsg with any of these names
NamedSetsLoaded ==
    \E r \in BagToSet(pending) : \E names \in CollectionNames :
        /\ r.kind = "loadEntitySets"
        /\ Step(entitySetsMsg(m, names), SetToBag({r}), HistNone)

NextNames ==
    \/ KeyUp
    \/ KeyDown
    \/ KeyRight
    \/ KeyLeft
    \/ NamedSetsLoaded
    \/ FewEntitiesLoaded
    \/ LoadFailed

SpecNames == Init /\ [][NextNames]_vars

\* C31: a page of records delivered while the column its drill-down created
\* is still in the stack fills that column and changes the items and the
\* records of no other column, whatever the name of the collection.
C31_PageFillsItsColumn ==
    [][(/\ hist'.key = "listed"
        /\ pc' = "running"
        /\ hist'.snap.target >= 0)
       => LET t == hist'.snap.target + 1
              page == GetEntitiesWithCount(Held(hist'.snap.held), Limit)
          IN /\ Len(m'.columns) = Len(m.columns)
             /\ m'.columns[t].entities = page.entities
             /\ \A i \in 1..Len(m.columns) :
                   i # t => /\ m'.columns[i].items = m.columns[i].items
                            /\ m'.columns[i].entities = m.columns[i].entities]_vars

(***************************************************************************)
(* Answers that arrive late.                                               *)
(***************************************************************************)
\* the items the collection column shows for the collections names
ShownSets(names) ==
    <<"$metadata [META]">>
        \o [k \in 1..Len(names) |-> names[k] \o " " \o Capabilities(names[k])]

\* C33: whenever the collection column shows loaded content, it is the
\* list of collections of the service bound by the last drill-down from the
\* service column; the answer for a service left before does not fill the
\* column of the service drilled into after it.
C33_CollectionsOfBoundService ==
    (/\ pc = "running"
     /\ Len(m.columns) >= 2
     /\ m.columns[2].title = "EntitySets"
     /\ m.columns[2].items[1] = "$metadata [META]")
        => \E names \in EntitySetsOf(m.odata) :
              m.columns[2].items = ShownSets(names)

\* C34: a Details column shows the record that was under the cursor of the
\* record list when it was opened (the cursor of the list cannot move while
\* the Details column is there); the answer of a detailed read asked for
\* another record does not replace it.
C34_DetailsOfSelectedRecord ==
    (/\ pc = "running"
     /\ Len(m.columns) = 4
     /\ m.columns[4].title = "Details"
     /\ m.columns[3].cursor \in 0..(Len(m.columns[3].entities) - 1))
        => LET selected == m.columns[3].entities[m.columns[3].cursor + 1]
           IN /\ m.columns[4].entities = <<selected>>
              /\ m.columns[4].items = MarshalIndent(selected)

(***************************************************************************)
(* Commits and their completions: from a record's Details column, F2 and   *)
(* F4 open the editor, esc cancels it, F2 commits the buffer as opened,    *)
(* and the request of a commit completes or fails at any later turn.       *)
(***************************************************************************)
\* F4 pressed right after an esc: the commands in flight at that moment
\* were all issued before this buffer was opened
HistReopened ==
    [HistNone EXCEPT !.key = "reopened", !.snap = [pending |-> pending]]

ReopenUpdate ==
    /\ ~m.modalEditor
    /\ hist.key = "cancelled"
    /\ Step(keyF4(m), EmptyBag, HistReopened)

InitSave ==
    /\ m \in {AtDetails(h) : h \in EditHeights}
    /\ pending = EmptyBag
    /\ pc = "running"
    /\ hist = HistNone
    /\ edits = 0
    /\ lastPreview = NotFollowed

NextSave ==
    \/ OpenCreate
    \/ OpenUpdate
    \/ ReopenUpdate
    \/ EditEsc
    \/ EditDown
    \/ EditUp
    \/ EditCommit
    \/ SaveSucceeded
    \/ SaveFailed

SpecSave == InitSave /\ [][NextSave]_vars

\* the step handles the saveSuccessMsg of a request in flight
SaveSuccessHandled ==
    /\ \E r \in BagToSet(pending) :
          /\ r.kind \in {"create", "copy", "update"}
          /\ pending' = pending (-) SetToBag({r})
    /\ Len(m'.logs[1]) >= 8
    /\ SubSeq(m'.logs[1], 1, 8) = "SUCCESS:"
    /\ hist'.key = "other"

\* C35: a save-success completion of a request issued before the open
\* editor was opened (the earlier editor was cancelled, a new one opened)
\* leaves the new editor open, with its lines and its cursor unchanged.
C35_LateSuccessKeepsNewEditor ==
    [][(/\ hist.key = "reopened" /\ m.modalEditor
        /\ pending # EmptyBag
        /\ SaveSuccessHandled)
       => (/\ m'.modalEditor
           /\ Buffer(m') = Buffer(m)
           /\ m'.modalOperation = m.modalOperation)]_vars

\* the save requests in flight
Saves(B) ==
    LET S == {r \in BagToSet(B) : r.kind \in {"create", "copy", "update"}}
    IN [r \in S |-> B[r]]

\* C36: F2 pressed again on a buffer whose earlier commit has dispatched a
\* request that has not completed dispatches no second request.
C36_OneRequestPerBuffer ==
    [][(/\ hist.key = "commit" /\ m.modalEditor
        /\ m.logs[1] = "Performing operation"
        /\ Saves(pending) # EmptyBag
        /\ hist'.key = "commit")
       => pending' = pending]_vars

\* the requests in flight that list collections, list records, read one
\* record in detail, create or update
Counted(B) ==
    LET S == {r \in BagToSet(B) :
                 r.kind \in {"loadEntitySets", "loadEntities", "readEntity",
                             "create", "copy", "update"}}
    IN [r \in S |-> B[r]]

\* C37: m.loading is true in every state in which a request that lists
\* collections or records, reads a record in detail, creates or updates is
\* in flight.
C37_LoadingWhileOutstanding ==
    (pc = "running" /\ Counted(pending) # EmptyBag) => m.loading

(***************************************************************************)
(* The bound service: three services, the preview commands followed, the   *)
(* line-wise keys, drill-down into a service, back-navigation, the list of *)
(* collections and the messages of the previews.                           *)
(***************************************************************************)
InitBind ==
    /\ m = initialModel(DefaultServices)
    /\ pending = SeqToBag(updatePreview(m))
    /\ pc = "running"
    /\ hist = HistNone
    /\ edits = 0
    /\ lastPreview = updatePreview(m)[1]

\* drill-down at the service column, with no list of collections awaited
DrillService ==
    m.activeColumn = 0 /\ Loads(pending) = EmptyBag /\ KeyRight

\* the preview of the last key has arrived
Previewed == Previews(pending) = EmptyBag

NextBind ==
    \/ Previewed /\ KeyUp
    \/ Previewed /\ KeyDown
    \/ DrillService
    \/ Previewed /\ KeyLeft
    \/ EntitySetsLoaded
    \/ PreviewLoaded

SpecBind == InitBind /\ [][NextBind]_vars

\* the service named by the item under the cursor of the service column
\* (1-based, 0 when the cursor is on no service)
ServiceUnderCursor(mm) ==
    LET col == mm.columns[1]
        named == IF col.cursor \in 0..(Len(col.items) - 1)
                 THEN {i \in 1..Len(mm.services) :
                          mm.services[i] = col.items[col.cursor + 1]}
                 ELSE {}
    IN IF named = {} THEN 0 ELSE CHOOSE i \in named : TRUE

PrintableKeys == {"a", "q", "j", "k"}

\* the editor's switch on a key name of one character: "q" is with
\* "ctrl+c" and "f10" (quits is TRUE, the model is returned with tea.Quit),
\* "k" is with "up", "j" is with "down", any other reaches default
editPrintable(mm, key) ==
    CASE key = "q" -> [quits |-> TRUE, r |-> Ret(mm, <<>>)]
      [] key = "k" -> [quits |-> FALSE, r |-> editUp(mm)]
      [] key = "j" -> [quits |-> FALSE, r |-> editDown(mm)]
      [] OTHER -> [quits |-> FALSE, r |-> editChar(mm, key)]

\* a printable key: the key and the buffer and cursor before it
HistPrintable(key) ==
    [HistNone EXCEPT !.key = "printable",
                     !.snap = [char |-> key, buffer |-> Buffer(m)]]

EditPrintable ==
    \E key \in PrintableKeys :
        /\ m.modalEditor
        /\ IF editPrintable(m, key).quits
           THEN /\ pc = "running"
                /\ pc' = "quit"
                /\ hist' = HistPrintable(key)
                /\ UNCHANGED <<m, pending, edits, lastPreview>>
           ELSE Step(editPrintable(m, key).r, EmptyBag, HistPrintable(key))

NextPrint ==
    \/ FirstEdit /\ EditPrintable
    \/ EditLeft
    \/ EditRight
    \/ EditEsc

SpecPrint == InitType /\ [][NextPrint]_vars

\* C39: in the open editor with the cursor at a valid position, a key
\* whose name is one printable character (q, j and k included) inserts
\* that character at the cursor and advances the column cursor by one; it
\* neither quits the program nor moves the cursor line.
C39_PrintableKeyInserts ==
    [][(/\ hist'.key = "printable" /\ m.modalEditor
        /\ ValidPosition(Buffer(m)))
       => LET line == m.modalContent[m.modalCursor + 1]
              char == hist'.snap.char
          IN /\ pc' = "running"
             /\ m'.modalEditor
             /\ m'.modalCursor = m.modalCursor
             /\ m'.modalColCursor = m.modalColCursor + 1
             /\ m'.modalContent =
                   [m.modalContent EXCEPT ![m.modalCursor + 1] =
                       SubSeq(line, 1, m.modalColCursor) \o char
                           \o SubSeq(line, m.modalColCursor + 1, Len(line))]]_vars

(***************************************************************************)
(* Placeholders of the collection column.                                  *)
(***************************************************************************)
\* the item of the collection column before the list has arrived, and the
\* item of an empty list
Placeholders == {"Loading...", "(No entity sets)"}

\* C40: a drill-down at the collection column with a placeholder under the
\* cursor appends no column and issues no request that lists records.
C40_PlaceholderIsNotDrilled ==
    [][(/\ hist'.key = "drill" /\ pc' = "running"
        /\ m.activeColumn = 1 /\ Len(m.columns) >= 2
        /\ m.columns[2].cursor \in 0..(Len(m.columns[2].items) - 1)
        /\ m.columns[2].items[m.columns[2].cursor + 1] \in Placeholders)
       => (/\ Len(m'.columns) = Len(m.columns)
           /\ \A r \in BagToSet(pending' (-) pending) :
                 r.kind # "loadEntities")]_vars

====
